---- MODULE Spec2Model ----
(***************************************************************************)
(* Recording pipeline of Simpleye (backend/app/cameras/recorder.py):       *)
(* the RecorderManager supervisor and its worker threads, the manager's    *)
(* stop(), the retention janitor and the two recorders' bucket writes.     *)
(*                                                                         *)
(* Spec    the supervisor, the worker registry, worker thread lifecycles,  *)
(*         RecorderManager.stop() and edits of the camera collection.      *)
(* SpecStop the supervisor and RecorderManager.stop().                     *)
(* SpecFs  the clock, the minute buckets on disk, the retention janitor    *)
(*         and one camera's recorder writing into its buckets.             *)
(* SpecWeb the supervisor, web requests and the process-exit hook.         *)
(* SpecGen the live preview generator and its capture sessions.            *)
(* SpecSt  the stitched playlist over a camera's minute manifests.         *)
(* SpecClip a clip request: checks, trim parameters, transcode, record.    *)
(* SpecSnap a snapshot recorder thread, its capture sessions and stop().   *)
(* SpecLoops the supervisor's and the janitor's loops and the global stop. *)
(* SpecRange the stitched playlist over a requested range of time.         *)
(* SpecParams the supervisor over documents with numeric parameters.       *)
(* SpecColl the segment lookup of a clip, as a function of its inputs.     *)
(* SpecStore the clips collection and the clip files over many requests.   *)
(* SpecFrames the frame file names of one minute bucket.                   *)
(* SpecTree a retention sweep over the whole recordings tree.              *)
(***************************************************************************)
EXTENDS Integers, Sequences, FiniteSets, TLC

VARIABLES
    db,          \* the cameras collection: camera id -> stored document
    threads,     \* RecorderManager._threads: insertion-ordered <<cid, worker>>
    workers,     \* every recorder thread object constructed so far
    ctl_stop,    \* RecorderManager._ctl_stop
    sup,         \* position of the _supervise thread
    cams,        \* _supervise: the list fetched by the pass in progress
    idx,         \* _supervise: position in cams
    active_ids,  \* _supervise: active_ids of the pass in progress
    sweep,       \* _supervise: list(self._threads.items()) still to visit
    mgr,         \* position of a RecorderManager.stop() call
    stopTodo,    \* stop(): list(self._threads.values()) still to visit
    isAliveRaises, \* build: Thread.is_alive() of a finished recorder raises
    edits,       \* number of edits of the collection so far
    hist,        \* history: previous pass's list, worker exits, pass actions
    now,         \* wall clock, in ticks since datetime.min
    fs,          \* minute directories of the recorded camera -> their mtime
    jan,         \* position of the janitor thread
    jcams,       \* _run_retention_cleanup: the fetched list
    jidx,        \* _run_retention_cleanup: position in jcams
    jnow,        \* _run_retention_cleanup: now, read once per sweep
    cutoff,      \* _run_retention_cleanup: cutoff of the camera being walked
    todo,        \* _run_retention_cleanup: listed directories still to visit
    rec,         \* the recorded camera's recorder: its run loop's locals
    procs,       \* encoder processes: minute bucket -> process state
    fs0,         \* history: the buckets present when the sweep read the clock
    req,         \* position of the web request being served
    exiting,     \* the interpreter is exiting: atexit hooks are run
    served,      \* history: a request was served to its end
    gclock,      \* time.time() of the live preview, in ticks
    gpar,        \* mjpeg_generator's frame_interval, heartbeat_interval, idle_reconnect
    gen,         \* mjpeg_generator's position and locals: now, last, last_send, cap
    sessions,    \* every cv2.VideoCapture the generator created: open or released
    gout,        \* the chunk the generator yielded last
    ghist,       \* history: last image frame sent, when the last frame was read
                 \* or handed over, the last read's outcome, how it ended
    dirs,        \* the camera's minute directories: minute -> its index.m3u8
    stitch,      \* api_concat_hls_playlist: its position and locals
    creq,        \* a clip request: its body, the camera, the segments on disk
    clip,        \* api_create_clip: its position and locals
    clips,       \* the clips collection
    cfile,       \* the file at the request's out_path
    snap,        \* a CameraRecorder thread: its position, _stop, _cap, locals
    scaps,       \* every cv2.VideoCapture that recorder created: its state
    sclock,      \* time.time() of the recorder, in ticks
    shist,       \* history: the last two frame writes, read failures
    loops,       \* the supervisor's and the janitor's loops and _ctl_stop
    coll,        \* _collect_segments_for_window: its arguments and result
    cstore,      \* the clips collection and the clip files of one camera
    frames,      \* a snapshot worker's clock and the frame files of a bucket
    jtree        \* the recordings tree of a retention sweep, and its list

supVars == <<db, threads, workers, ctl_stop, sup, cams, idx, active_ids, sweep,
             mgr, stopTodo, isAliveRaises, edits, hist>>
fsVars == <<now, fs, jan, jcams, jidx, jnow, cutoff, todo, rec, procs, fs0>>
webVars == <<req, exiting, served>>
genVars == <<gclock, gpar, gen, sessions, gout, ghist>>
stVars == <<dirs, stitch>>
clipVars == <<creq, clip, clips, cfile>>
snapVars == <<snap, scaps, sclock, shist>>
loopVars == <<loops>>
restVars == <<coll, cstore, frames, jtree>>
appVars == <<webVars, genVars, stVars, clipVars, snapVars, loopVars, restVars>>
vars == <<db, threads, workers, ctl_stop, sup, cams, idx, active_ids, sweep,
          mgr, stopTodo, isAliveRaises, edits, hist,
          now, fs, jan, jcams, jidx, jnow, cutoff, todo, rec, procs, fs0,
          req, exiting, served, gclock, gpar, gen, sessions, gout, ghist,
          dirs, stitch, creq, clip, clips, cfile,
          snap, scaps, sclock, shist, loops, coll, cstore, frames, jtree>>

(***************************************************************************)
(* Bounds                                                                  *)
(***************************************************************************)
MaxWorkers == 2
MaxEdits == 2

(***************************************************************************)
(* The cameras collection                                                  *)
(***************************************************************************)
CamOrder == <<"c1", "c2">>
Cams == {CamOrder[i] : i \in DOMAIN CamOrder}

\* Values of the stored fields. "unset" is a missing key or None.
RtspValues == {"unset", " ", "rtsp://cam"}
ModeValues == {"unset", "hls", "HLS", "jpeg", "mjpeg"}

\* str.strip() on the stored source URLs
Strip(s) == IF s = " " THEN "" ELSE s

\* str.lower() on the stored recording modes
Lower(s) == IF s = "HLS" THEN "hls" ELSE s

\* (c.get('rtsp_url') or '').strip()
RtspOf(c) == IF c.rtsp_url = "unset" THEN "" ELSE Strip(c.rtsp_url)

\* (c.get('recording_mode') or 'hls').lower()
ModeOf(c) == IF c.recording_mode = "unset" THEN "hls" ELSE Lower(c.recording_mode)

\* not (not enabled or not rtsp): the camera is to be recorded
IsActive(c) == c.enabled /\ RtspOf(c) # ""

\* Stored retention_hours values: <<"unset", 0>> is a missing key or None,
\* <<"int", n>> the integer n, <<"numstr", n>> a string of digits reading n,
\* <<"text", 0>> a string that is no number.
NoRetention == <<"unset", 0>>

\* Stored max_fps and hls_bitrate_kbps values (jpeg_quality and
\* connect_timeout are read as max_fps is, hls_segment_seconds as
\* hls_bitrate_kbps): "unset" is a missing key or None, "5" a number or a
\* string reading one, "text" a string that is no number.
ParamValues == {"unset", "5", "text"}

\* A stored camera document, and the slot of a camera that has none.
Doc(en, url, mode, rh) ==
    [present |-> TRUE, enabled |-> en, rtsp_url |-> url,
     recording_mode |-> mode, retention_hours |-> rh,
     max_fps |-> "unset", hls_bitrate_kbps |-> "unset"]
Absent ==
    [present |-> FALSE, enabled |-> FALSE, rtsp_url |-> "unset",
     recording_mode |-> "unset", retention_hours |-> NoRetention,
     max_fps |-> "unset", hls_bitrate_kbps |-> "unset"]

\* Documents the supervisor specification draws from: a deleted camera, a
\* disabled one, one without a source, and recorded ones whose mode is
\* unset, differs from 'hls' by case only, is 'jpeg', or is neither.
SupDocs ==
    {Absent,
     Doc(FALSE, "rtsp://cam", "hls", NoRetention),
     Doc(TRUE, " ", "hls", NoRetention)}
    \cup {Doc(TRUE, "rtsp://cam", mode, NoRetention) :
             mode \in ModeValues \ {"hls"}}

\* list(self.db.cameras.find()): the stored documents, in collection order
Find(d) ==
    LET present == SelectSeq(CamOrder, LAMBDA c : d[c].present)
    IN  [i \in 1..Len(present) |->
            [id |-> present[i],
             enabled |-> d[present[i]].enabled,
             rtsp_url |-> d[present[i]].rtsp_url,
             recording_mode |-> d[present[i]].recording_mode,
             retention_hours |-> d[present[i]].retention_hours,
             max_fps |-> d[present[i]].max_fps,
             hls_bitrate_kbps |-> d[present[i]].hls_bitrate_kbps]]

(***************************************************************************)
(* The worker registry (a dict, insertion-ordered) and the thread objects  *)
(***************************************************************************)
\* self._threads.get(cid): the registered worker, 0 for None
Get(reg, cid) ==
    IF \E i \in DOMAIN reg : reg[i].cid = cid
    THEN reg[CHOOSE i \in DOMAIN reg : reg[i].cid = cid].w
    ELSE 0

\* self._threads[cid] = rec
Put(reg, cid, w) ==
    IF \E i \in DOMAIN reg : reg[i].cid = cid
    THEN [i \in DOMAIN reg |->
             IF reg[i].cid = cid THEN [cid |-> cid, w |-> w] ELSE reg[i]]
    ELSE Append(reg, [cid |-> cid, w |-> w])

\* self._threads.pop(cid, None)
Pop(reg, cid) == SelectSeq(reg, LAMBDA e : e.cid # cid)

\* list(self._threads.values())
Values(reg) == [i \in DOMAIN reg |-> reg[i].w]

Registered == {threads[i].w : i \in DOMAIN threads}
RegisteredCams == {threads[i].cid : i \in DOMAIN threads}
WorkerIds == DOMAIN workers

\* CameraRecorder.stop / HLSRecorder.stop: self._stop.set() comes first
StopWorker(ws, w) == [ws EXCEPT ![w].stop = TRUE]

\* rec.mode of the recorder started for a configured mode: HLSRecorder is
\* tagged 'hls', the CameraRecorder of the else branch is tagged 'jpeg'
TagFor(mode) == IF mode = "hls" THEN "hls" ELSE "jpeg"

\* HLSRecorder(...) / CameraRecorder(...): a thread object, not yet started
NewWorker(cid, mode) ==
    [cam |-> cid, mode |-> TagFor(mode), stop |-> FALSE, st |-> "new"]

(***************************************************************************)
(* RecorderManager._supervise                                              *)
(***************************************************************************)
\* th.is_alive() of a started thread. Both recorder classes assign
\* self._stop = threading.Event() over Thread._stop, which is_alive() of a
\* finished thread calls on the builds that still have it: there the call
\* raises TypeError, on the others it returns False.
IsAliveRaisesOn(w) == isAliveRaises /\ workers[w].st = "exited"
IsAlive(w) == workers[w].st = "alive"

\* A worker of the registry leaves its run loop: the pass no longer sees
\* the workers it left behind.
NoteExit(w) ==
    IF w \in Registered THEN [hist EXCEPT !.quietCur = FALSE] ELSE hist

\* while not self._ctl_stop.is_set(): the loop ends
SupExit ==
    /\ sup = "loop"
    /\ ctl_stop
    /\ sup' = "exited"
    /\ UNCHANGED <<db, threads, workers, ctl_stop, cams, idx, active_ids, sweep,
                   mgr, stopTodo, isAliveRaises, edits, hist>>
    /\ UNCHANGED <<fsVars, appVars>>

\* a failed fetch that goes on with the stored documents all the same
FetchResultStale(ok, d) == Find(d)

\* try: cams = list(self.db.cameras.find()); except Exception: cams = []
FetchResult(ok, d) == IF ok THEN Find(d) ELSE <<>>

\* cams = list(self.db.cameras.find()), [] when the fetch raises
SupFetch ==
    /\ sup = "loop"
    /\ ~ctl_stop
    /\ \E ok \in BOOLEAN :
        /\ cams' = FetchResult(ok, db)
        /\ hist' = [same |-> hist.passes > 0 /\ cams' = cams,
                    quietPrev |-> hist.quietCur, quietCur |-> TRUE,
                    acted |-> FALSE, passes |-> hist.passes,
                    fetched |-> ok]
    /\ active_ids' = {}
    /\ idx' = 1
    /\ sup' = "iter"
    /\ UNCHANGED <<db, threads, workers, ctl_stop, sweep, mgr, stopTodo,
                   isAliveRaises, edits>>
    /\ UNCHANGED <<fsVars, appVars>>

\* for c in cams: ... up to the decision to (re)start, and th.stop()
SupIter ==
    /\ sup = "iter"
    /\ idx <= Len(cams)
    /\ LET c == cams[idx]
           th == Get(threads, c.id)
       IN  IF ~IsActive(c)
           THEN /\ idx' = idx + 1
                /\ UNCHANGED <<active_ids, workers, sup, hist>>
           ELSE /\ active_ids' = active_ids \cup {c.id}
                /\ IF th # 0 /\ IsAliveRaisesOn(th)
                   THEN /\ sup' = "crashed"
                        /\ UNCHANGED <<idx, workers, hist>>
                   ELSE IF th = 0 \/ ~IsAlive(th) \/ workers[th].mode # ModeOf(c)
                   THEN /\ workers' = IF th # 0 THEN StopWorker(workers, th)
                                               ELSE workers
                        /\ hist' = IF th # 0 THEN [hist EXCEPT !.acted = TRUE]
                                             ELSE hist
                        /\ sup' = "create"
                        /\ idx' = idx
                   ELSE /\ idx' = idx + 1
                        /\ UNCHANGED <<workers, sup, hist>>
    /\ UNCHANGED <<db, threads, ctl_stop, cams, sweep, mgr, stopTodo,
                   isAliveRaises, edits>>
    /\ UNCHANGED <<fsVars, appVars>>

\* The parameters of the recorder to create. In the 'hls' branch
\* int(c.get('hls_bitrate_kbps') or 1500) and int(c.get(
\* 'hls_segment_seconds') or 2) are each in a try that falls back to the
\* default; in the other branch float(c.get('max_fps') or 5.0),
\* int(c.get('jpeg_quality') or 75) and float(c.get('connect_timeout') or
\* 10.0) are in none: a string that is no number raises ValueError out of
\* _supervise.
ParamRaises(c) == ModeOf(c) # "hls" /\ c.max_fps = "text"

\* rec = HLSRecorder(...) / CameraRecorder(...); rec.mode = ...;
\* self._threads[cid] = rec
SupCreate ==
    /\ sup = "create"
    /\ Len(workers) < MaxWorkers
    /\ LET c == cams[idx]
       IN  IF ParamRaises(c)
           THEN /\ sup' = "crashed"
                /\ UNCHANGED <<workers, threads>>
           ELSE /\ workers' = Append(workers, NewWorker(c.id, ModeOf(c)))
                /\ threads' = Put(threads, c.id, Len(workers) + 1)
                /\ sup' = "start"
    /\ UNCHANGED <<db, ctl_stop, cams, idx, active_ids, sweep, mgr, stopTodo,
                   isAliveRaises, edits, hist>>
    /\ UNCHANGED <<fsVars, appVars>>

\* rec.start()
StartWorker(ws, w) == [ws EXCEPT ![w].st = "alive"]

SupStart ==
    /\ sup = "start"
    /\ workers' = StartWorker(workers, Get(threads, cams[idx].id))
    /\ hist' = [hist EXCEPT !.acted = TRUE]
    /\ idx' = idx + 1
    /\ sup' = "iter"
    /\ UNCHANGED <<db, threads, ctl_stop, cams, active_ids, sweep, mgr,
                   stopTodo, isAliveRaises, edits>>
    /\ UNCHANGED <<fsVars, appVars>>

\* the camera list is exhausted: for cid, t in list(self._threads.items())
SupIterEnd ==
    /\ sup = "iter"
    /\ idx > Len(cams)
    /\ sweep' = threads
    /\ sup' = "sweep"
    /\ UNCHANGED <<db, threads, workers, ctl_stop, cams, idx, active_ids,
                   mgr, stopTodo, isAliveRaises, edits, hist>>
    /\ UNCHANGED <<fsVars, appVars>>

\* DropEntry without the stop signal: the entry is popped, its worker runs on.
DropEntryUnsignalled(e) ==
    /\ workers' = workers
    /\ threads' = Pop(threads, e.cid)
    /\ hist' = [hist EXCEPT !.acted = TRUE]

\* The sweep's treatment of one entry it drops: t.stop(), then the pop.
DropEntry(e) ==
    /\ workers' = StopWorker(workers, e.w)
    /\ threads' = Pop(threads, e.cid)
    /\ hist' = [hist EXCEPT !.acted = TRUE]

\* one entry of the sweep: stop and drop what is not active or not alive
SupSweep ==
    /\ sup = "sweep"
    /\ sweep # <<>>
    /\ LET e == Head(sweep)
       IN  IF e.cid \in active_ids /\ IsAliveRaisesOn(e.w)
           THEN /\ sup' = "crashed"
                /\ UNCHANGED <<workers, threads, sweep, hist>>
           ELSE /\ sweep' = Tail(sweep)
                /\ sup' = sup
                /\ IF e.cid \notin active_ids \/ ~IsAlive(e.w)
                   THEN DropEntry(e)
                   ELSE UNCHANGED <<workers, threads, hist>>
    /\ UNCHANGED <<db, ctl_stop, cams, idx, active_ids, mgr, stopTodo,
                   isAliveRaises, edits>>
    /\ UNCHANGED <<fsVars, appVars>>

\* the sweep is over: the pass is complete, the inter-pass sleep begins
SupSweepEnd ==
    /\ sup = "sweep"
    /\ sweep = <<>>
    /\ sup' = "sleep"
    /\ hist' = [hist EXCEPT !.passes = 1]
    /\ UNCHANGED <<db, threads, workers, ctl_stop, cams, idx, active_ids, sweep,
                   mgr, stopTodo, isAliveRaises, edits>>
    /\ UNCHANGED <<fsVars, appVars>>

\* for _ in range(10): if stop: break; time.sleep(1.0)
SupSleep ==
    /\ sup = "sleep"
    /\ sup' = "loop"
    /\ UNCHANGED <<db, threads, workers, ctl_stop, cams, idx, active_ids, sweep,
                   mgr, stopTodo, isAliveRaises, edits, hist>>
    /\ UNCHANGED <<fsVars, appVars>>

(***************************************************************************)
(* RecorderManager.stop, called by the process-exit hook                   *)
(***************************************************************************)
\* self._ctl_stop.set()
StopSet ==
    /\ mgr = "idle"
    /\ ctl_stop' = TRUE
    /\ mgr' = "snapshot"
    /\ UNCHANGED <<db, threads, workers, sup, cams, idx, active_ids, sweep,
                   stopTodo, isAliveRaises, edits, hist>>
    /\ UNCHANGED <<fsVars, appVars>>

\* for t in list(self._threads.values()): the copy
StopSnapshot ==
    /\ mgr = "snapshot"
    /\ stopTodo' = Values(threads)
    /\ mgr' = "iter"
    /\ UNCHANGED <<db, threads, workers, ctl_stop, sup, cams, idx, active_ids,
                   sweep, isAliveRaises, edits, hist>>
    /\ UNCHANGED <<fsVars, appVars>>

\* t.stop() for the next worker of the copy
StopStep ==
    /\ mgr = "iter"
    /\ stopTodo # <<>>
    /\ workers' = StopWorker(workers, Head(stopTodo))
    /\ stopTodo' = Tail(stopTodo)
    /\ UNCHANGED <<db, threads, ctl_stop, sup, cams, idx, active_ids, sweep,
                   mgr, isAliveRaises, edits, hist>>
    /\ UNCHANGED <<fsVars, appVars>>

\* stop() returns
StopReturn ==
    /\ mgr = "iter"
    /\ stopTodo = <<>>
    /\ mgr' = "done"
    /\ UNCHANGED <<db, threads, workers, ctl_stop, sup, cams, idx, active_ids,
                   sweep, stopTodo, isAliveRaises, edits, hist>>
    /\ UNCHANGED <<fsVars, appVars>>

(***************************************************************************)
(* Recorder threads, as far as the supervisor sees them                    *)
(***************************************************************************)
\* run(): while not self._stop.is_set() ends, the thread returns
WorkerExit(w) ==
    /\ workers[w].st = "alive"
    /\ workers[w].stop
    /\ workers' = [workers EXCEPT ![w].st = "exited"]
    /\ hist' = NoteExit(w)
    /\ UNCHANGED <<db, threads, ctl_stop, sup, cams, idx, active_ids, sweep,
                   mgr, stopTodo, isAliveRaises, edits>>
    /\ UNCHANGED <<fsVars, appVars>>

\* run() ends by an exception nothing catches: _open's RuntimeError,
\* _ensure_dir's OSError in CameraRecorder.run or in _start_ffmpeg
WorkerCrash(w) ==
    /\ workers[w].st = "alive"
    /\ workers' = [workers EXCEPT ![w].st = "exited"]
    /\ hist' = NoteExit(w)
    /\ UNCHANGED <<db, threads, ctl_stop, sup, cams, idx, active_ids, sweep,
                   mgr, stopTodo, isAliveRaises, edits>>
    /\ UNCHANGED <<fsVars, appVars>>

(***************************************************************************)
(* The camera registry's edits (web layer): insert, update, delete         *)
(***************************************************************************)
\* The supervisor reads the collection in its fetch only, so an edit made
\* during a pass reads as one made in the sleep that follows it: edits are
\* taken there.
EditCamera(c, doc) ==
    /\ edits < MaxEdits
    /\ sup = "sleep" \/ (sup = "loop" /\ hist.passes = 0)
    /\ doc # db[c]
    /\ db' = [db EXCEPT ![c] = doc]
    /\ edits' = edits + 1
    /\ UNCHANGED <<threads, workers, ctl_stop, sup, cams, idx, active_ids,
                   sweep, mgr, stopTodo, isAliveRaises, hist>>
    /\ UNCHANGED <<fsVars, appVars>>

(***************************************************************************)
(* Specification of the supervisor                                         *)
(***************************************************************************)
\* No request is being served, the process is not exiting
WebParked == req = "none" /\ exiting = FALSE /\ served = FALSE

\* No live preview is requested
GenParked ==
    /\ gclock = 0 /\ gpar = <<>> /\ gen = <<>> /\ sessions = <<>>
    /\ gout = <<>> /\ ghist = <<>>

\* No stitched playlist is requested
StParked == dirs = <<>> /\ stitch = <<>>

\* No clip is requested
ClipParked == creq = <<>> /\ clip = <<>> /\ clips = <<>> /\ cfile = "absent"

\* The parts of the application outside the specification at hand
\* No snapshot recorder is followed on its own
SnapParked == snap = <<>> /\ scaps = <<>> /\ sclock = 0 /\ shist = <<>>

\* The two loops are not followed on their own
LoopParked == loops = <<>>
CollParked == coll = <<>>
StoreParked == cstore = <<>>
FramesParked == frames = <<>>
TreeParked == jtree = <<>>
RestParked == CollParked /\ StoreParked /\ FramesParked /\ TreeParked

AppParked ==
    /\ WebParked /\ GenParked /\ StParked /\ ClipParked
    /\ SnapParked /\ LoopParked /\ RestParked

FsParked ==
    /\ now = 0 /\ fs = <<>> /\ jan = "parked" /\ jcams = <<>>
    /\ jidx = 0 /\ jnow = 0 /\ cutoff = 0 /\ todo = {} /\ rec = <<>>
    /\ procs = <<>> /\ fs0 = {}

Init ==
    /\ db = [c \in Cams |-> Absent]
    /\ threads = <<>>
    /\ workers = <<>>
    /\ ctl_stop = FALSE
    /\ sup = "loop"
    /\ cams = <<>>
    /\ idx = 1
    /\ active_ids = {}
    /\ sweep = <<>>
    /\ mgr = "idle"
    /\ stopTodo = <<>>
    /\ isAliveRaises \in BOOLEAN
    /\ edits = 0
    /\ hist = [same |-> FALSE, quietPrev |-> TRUE, quietCur |-> TRUE,
               acted |-> FALSE, passes |-> 0, fetched |-> TRUE]
    /\ FsParked
    /\ AppParked

\* One reconciliation pass after the other
SupPass ==
    \/ SupFetch
    \/ SupIter
    \/ SupCreate
    \/ SupStart
    \/ SupIterEnd
    \/ SupSweep
    \/ SupSweepEnd
    \/ SupSleep

\* The supervisor, its workers and the registry's edits, the process running
Next ==
    \/ SupPass
    \/ \E w \in WorkerIds : WorkerExit(w)
    \/ \E w \in WorkerIds : WorkerCrash(w)
    \/ \E c \in Cams, doc \in SupDocs : EditCamera(c, doc)

Spec == Init /\ [][Next]_vars

(***************************************************************************)
(* Specification of the shutdown: the supervisor over a collection that    *)
(* no longer changes, and the process-exit hook calling stop()             *)
(***************************************************************************)
InitStop ==
    /\ db \in [Cams -> SupDocs]
    /\ threads = <<>>
    /\ workers = <<>>
    /\ ctl_stop = FALSE
    /\ sup = "loop"
    /\ cams = <<>>
    /\ idx = 1
    /\ active_ids = {}
    /\ sweep = <<>>
    /\ mgr = "idle"
    /\ stopTodo = <<>>
    /\ isAliveRaises \in BOOLEAN
    /\ edits = 0
    /\ hist = [same |-> FALSE, quietPrev |-> TRUE, quietCur |-> TRUE,
               acted |-> FALSE, passes |-> 0, fetched |-> TRUE]
    /\ FsParked
    /\ AppParked

NextStop ==
    \/ SupExit
    \/ SupPass
    \/ StopSet
    \/ StopSnapshot
    \/ StopStep
    \/ StopReturn
    \/ \E w \in WorkerIds : WorkerExit(w)
    \/ \E w \in WorkerIds : WorkerCrash(w)

SpecStop == InitStop /\ [][NextStop]_vars

(***************************************************************************)
(* Specification of the recorder parameters: the supervisor over stored    *)
(* documents whose numeric parameters are unset, numbers or other text, on *)
(* an interpreter whose is_alive() does not raise                          *)
(***************************************************************************)
ParamDocs ==
    {[Doc(TRUE, "rtsp://cam", "jpeg", NoRetention) EXCEPT !.max_fps = v] :
        v \in ParamValues}
    \cup {[Doc(TRUE, "rtsp://cam", "hls", NoRetention)
              EXCEPT !.hls_bitrate_kbps = v] : v \in ParamValues}

InitParams ==
    /\ db \in [Cams -> ParamDocs]
    /\ threads = <<>>
    /\ workers = <<>>
    /\ ctl_stop = FALSE
    /\ sup = "loop"
    /\ cams = <<>>
    /\ idx = 1
    /\ active_ids = {}
    /\ sweep = <<>>
    /\ mgr = "idle"
    /\ stopTodo = <<>>
    /\ isAliveRaises = FALSE
    /\ edits = 0
    /\ hist = [same |-> FALSE, quietPrev |-> TRUE, quietCur |-> TRUE,
               acted |-> FALSE, passes |-> 0, fetched |-> TRUE]
    /\ FsParked
    /\ AppParked

SpecParams == InitParams /\ [][NextStop]_vars

(***************************************************************************)
(* Properties of the supervisor                                            *)
(***************************************************************************)
\* The cameras of a fetched list that are enabled and have a source
ActiveIn(list) == {list[i].id : i \in {j \in DOMAIN list : IsActive(list[j])}}

\* The recorder threads of a camera that were started and have not exited
LiveWorkers(c) ==
    {w \in WorkerIds : workers[w].cam = c /\ workers[w].st = "alive"}

\* C1: at every moment every camera has at most one recorder thread that
\* was started and has not yet exited.
C1_AtMostOneLiveWorker ==
    \A c \in Cams : Cardinality(LiveWorkers(c)) <= 1

C4_RegistryEqualsActive ==
    sup = "sleep" => RegisteredCams = ActiveIn(cams)

\* C4, amended: after a completed pass the registry holds only enabled
\* cameras with a source of the list the pass read, and lacks one of them
\* only if that camera's latest worker has exited (the sweep found it dead
\* and dropped it); every worker that is no longer registered has its stop
\* signal set.
C4_RegistryAfterPass ==
    /\ sup = "sleep" =>
          /\ RegisteredCams \subseteq ActiveIn(cams)
          /\ \A c \in ActiveIn(cams) \ RegisteredCams :
                \E w \in WorkerIds :
                    /\ workers[w].cam = c
                    /\ workers[w].st = "exited"
                    /\ \A v \in WorkerIds : workers[v].cam = c => v <= w
    /\ \A w \in WorkerIds : w \notin Registered => workers[w].stop

\* C4, witness: a pass has completed in which the worker of a camera that
\* is no longer enabled, present or sourced was signalled and dropped.
C4_Witness ==
    /\ sup = "sleep"
    /\ \E w \in WorkerIds :
          /\ workers[w].cam \notin ActiveIn(cams)
          /\ w \notin Registered
          /\ workers[w].stop

\* C9: once stop() has returned and the supervisor has left its loop,
\* nothing signals a worker any more, so by then every worker that was
\* started must have its stop signal set (and goes on to exit).
C9_AllSignalledAfterStop ==
    (mgr = "done" /\ sup = "exited") =>
        \A w \in WorkerIds : workers[w].st # "new" => workers[w].stop

\* C10: once the global stop signal is set, no recorder thread is started.
C10_NoStartAfterStop ==
    [][~(ctl_stop /\ \E w \in WorkerIds :
            workers[w].st = "new" /\ workers'[w].st = "alive")]_vars

C34_FailedFetchEmptiesRegistry ==
    ~hist.fetched =>
        /\ cams = <<>>
        /\ sup \notin {"create", "start", "crashed"}
        /\ sup \in {"sleep", "loop"} =>
              /\ threads = <<>>
              /\ \A w \in WorkerIds : workers[w].stop

\* a pass whose fetch failed has ended after dropping a running worker
C34_Witness ==
    /\ ~hist.fetched
    /\ sup = "sleep"
    /\ hist.acted
    /\ \E w \in WorkerIds : workers[w].stop /\ workers[w].st = "alive"

\* C35: a stored document with a parameter that is no number does not end
\* the supervisor: it is never left by an exception.
C35_UnparseableParameterSurvived == sup # "crashed"

(***************************************************************************)
(* The clock and the recordings tree                                       *)
(***************************************************************************)
\* Time is counted in ticks since datetime.min; a datetime before it does
\* not exist. The clock starts StartMinute minutes after datetime.min and
\* advances by at most MaxTicks ticks.
TicksPerMinute == 2
MinutesPerHour == 60
DefaultRetentionHours == 24
StartMinute == 1500
MaxTicks == 2

TicksPerHour == MinutesPerHour * TicksPerMinute
StartTick == StartMinute * TicksPerMinute

\* ts.strftime('%Y') ... ts.strftime('%M'): the minute a datetime falls in
MinuteOf(t) == t \div TicksPerMinute

\* The camera of CamOrder that has recordings on disk and a recorder; the
\* other camera has no directory under the recordings root.
RecCam == "c2"

\* A minute-level directory whose path components are no date: its name.
StrayDir == 0 - 1

\* The minute directories on disk before the recorder starts: one an hour
\* old to the minute, one a minute older, one a day old to the minute,
\* and the stray one.
InitialDirs ==
    {StartMinute - MinutesPerHour, StartMinute - MinutesPerHour - 1,
     StartMinute - DefaultRetentionHours * MinutesPerHour, StrayDir}

\* Stored retention_hours values of the recorded camera
RetentionValues ==
    {NoRetention, <<"text", 0>>, <<"int", 1>>, <<"numstr", 2>>,
     <<"int", 0>>, <<"int", 0 - 1>>}

\* A retention reaching before datetime.min (at the model's clock)
HugeRetention == <<"int", StartMinute>>

\* rh_int = int(rh) if rh is not None else 24, 24 when int() raises
RhInt(v) ==
    CASE v[1] = "unset" -> DefaultRetentionHours
      [] v[1] = "text" -> DefaultRetentionHours
      [] OTHER -> v[2]

\* normalize_camera_payload: the retention_hours it stores for an input
NormalizeRetention(v) ==
    CASE v[1] = "unset" -> NoRetention
      [] v[1] = "text" -> NoRetention
      [] OTHER -> IF v[2] > 0 THEN <<"int", v[2]>> ELSE NoRetention

\* datetime(int(y), int(m), int(d), int(h), int(mi)), the directory's
\* mtime when the path is no date
DirTime(m) == IF m = StrayDir THEN fs[m] ELSE m * TicksPerMinute

\* a comparison that also takes the directory dated exactly at the cutoff
ExpiredLe(dt, co) == dt <= co

\* if dt < cutoff
Expired(dt, co) == dt < co

\* _ensure_dir(path): os.makedirs(path, exist_ok=True)
EnsureDir(tree, m) ==
    IF m \in DOMAIN tree THEN tree
    ELSE [x \in DOMAIN tree \cup {m} |-> IF x = m THEN now ELSE tree[x]]

\* shutil.rmtree(mip, ignore_errors=True)
RemoveDir(tree, m) == [x \in DOMAIN tree \ {m} |-> tree[x]]

\* a file of the directory is created or rewritten: the directory's mtime
Touch(tree, m) == [tree EXCEPT ![m] = now]

(***************************************************************************)
(* RecorderManager._janitor_loop and _run_retention_cleanup                *)
(***************************************************************************)
\* cams = list(self.db.cameras.find()), [] when it raises; now = utcnow()
JanitorFetch ==
    /\ jan = "fetch"
    /\ \E ok \in BOOLEAN : jcams' = IF ok THEN Find(db) ELSE <<>>
    /\ jnow' = now
    /\ jidx' = 1
    /\ fs0' = DOMAIN fs
    /\ jan' = "cams"
    /\ UNCHANGED <<now, fs, cutoff, todo, rec, procs>>
    /\ UNCHANGED <<supVars, appVars>>

\* for c in cams: rh_int, cutoff, cam_root, and the listing of its tree
JanitorCam ==
    /\ jan = "cams"
    /\ jidx <= Len(jcams)
    /\ LET c == jcams[jidx]
           co == jnow - RhInt(c.retention_hours) * TicksPerHour
       IN  IF co < 0
           THEN /\ jan' = "crashed"
                /\ UNCHANGED <<cutoff, todo, jidx>>
           ELSE /\ cutoff' = co
                /\ IF c.id = RecCam
                   THEN /\ todo' = DOMAIN fs
                        /\ jan' = "walk"
                        /\ jidx' = jidx
                   ELSE /\ jidx' = jidx + 1
                        /\ UNCHANGED <<todo, jan>>
    /\ UNCHANGED <<now, fs, jcams, jnow, rec, procs, fs0>>
    /\ UNCHANGED <<supVars, appVars>>

\* one listed minute directory: its time, the comparison, the rmtree
JanitorVisit(m) ==
    /\ jan = "walk"
    /\ m \in todo
    /\ todo' = todo \ {m}
    /\ fs' = IF m \in DOMAIN fs /\ Expired(DirTime(m), cutoff)
             THEN RemoveDir(fs, m) ELSE fs
    /\ UNCHANGED <<now, jan, jcams, jidx, jnow, cutoff, rec, procs, fs0>>
    /\ UNCHANGED <<supVars, appVars>>

\* the camera's tree is walked
JanitorCamEnd ==
    /\ jan = "walk"
    /\ todo = {}
    /\ jidx' = jidx + 1
    /\ jan' = "cams"
    /\ UNCHANGED <<now, fs, jcams, jnow, cutoff, todo, rec, procs, fs0>>
    /\ UNCHANGED <<supVars, appVars>>

\* the sweep returns; for _ in range(300): time.sleep(1.0)
JanitorEnd ==
    /\ jan = "cams"
    /\ jidx > Len(jcams)
    /\ jan' = "sleep"
    /\ UNCHANGED <<now, fs, jcams, jidx, jnow, cutoff, todo, rec, procs, fs0>>
    /\ UNCHANGED <<supVars, appVars>>

\* the next sweep begins
JanitorWake ==
    /\ jan = "sleep"
    /\ jan' = "fetch"
    /\ UNCHANGED <<now, fs, jcams, jidx, jnow, cutoff, todo, rec, procs, fs0>>
    /\ UNCHANGED <<supVars, appVars>>

\* the wall clock advances
Tick ==
    /\ now < StartTick + MaxTicks
    /\ now' = now + 1
    /\ UNCHANGED <<fs, jan, jcams, jidx, jnow, cutoff, todo, rec, procs, fs0>>
    /\ UNCHANGED <<supVars, appVars>>

(***************************************************************************)
(* The recorded camera's recorder and its encoder processes                *)
(***************************************************************************)
\* None, for current_minute, self._proc and ts
None == 0 - 2

\* a process table without process b / with a process b in state st
WithoutProc(ps, b) == [x \in DOMAIN ps \ {b} |-> ps[x]]
WithProc(ps, b, st) ==
    [x \in DOMAIN ps \cup {b} |-> IF x = b THEN st ELSE ps[x]]

\* self._proc and self._proc.poll() is None
ProcLive(ps, p) == p # None /\ p \in DOMAIN ps

\* The outcomes of a step of the environment: both where the step is
\* taken, one where it is not
Outcomes(taken) == IF taken THEN BOOLEAN ELSE {TRUE}

\* HLSRecorder.run, one turn of the loop up to its sleep: the rotation when
\* the minute changed (terminate, the bounded wait in which the old process
\* exits or not, _start_ffmpeg in the new minute directory), then the
\* restart when no process is live. Popen may raise: self._proc = None.
\* _start_ffmpeg's _ensure_dir is outside its try: when os.makedirs has a
\* directory to create and fails, its OSError ends run() and the thread.
HlsPoll ==
    /\ rec.kind = "hls"
    /\ rec.pc # "crashed"
    /\ \E exited \in Outcomes(rec.cur # MinuteOf(now)
                               /\ ProcLive(procs, rec.proc)),
          ok1 \in Outcomes(rec.cur # MinuteOf(now)),
          mk1 \in Outcomes(rec.cur # MinuteOf(now)
                               /\ MinuteOf(now) \notin DOMAIN fs),
          ok2 \in BOOLEAN,
          mk2 \in Outcomes(rec.cur = MinuteOf(now)
                               /\ rec.cur \notin DOMAIN fs) :
        LET m == MinuteOf(now)
            rotate == rec.cur # m
            procs1 == IF rotate /\ ProcLive(procs, rec.proc)
                      THEN IF exited THEN WithoutProc(procs, rec.proc)
                                     ELSE WithProc(procs, rec.proc, "term")
                      ELSE procs
            fail1 == rotate /\ m \notin DOMAIN fs /\ ~mk1
            started1 == rotate /\ ~fail1
            fs1 == IF started1 THEN EnsureDir(fs, m) ELSE fs
            procs2 == IF started1 /\ ok1 THEN WithProc(procs1, m, "running")
                                         ELSE procs1
            proc2 == IF started1 THEN (IF ok1 THEN m ELSE None) ELSE rec.proc
            cur2 == IF started1 THEN m ELSE rec.cur
            dead == ~fail1 /\ ~ProcLive(procs2, proc2)
            fail2 == dead /\ cur2 \notin DOMAIN fs1 /\ ~mk2
            started2 == dead /\ ~fail2
            fs3 == IF started2 THEN EnsureDir(fs1, cur2) ELSE fs1
            procs3 == IF started2 /\ ok2 THEN WithProc(procs2, cur2, "running")
                                         ELSE procs2
            proc3 == IF started2 THEN (IF ok2 THEN cur2 ELSE None) ELSE proc2
        IN  /\ fs' = fs3
            /\ procs' = procs3
            /\ rec' = [rec EXCEPT !.cur = cur2, !.proc = proc3,
                           !.pc = IF fail1 \/ fail2 THEN "crashed" ELSE @]
    /\ UNCHANGED <<now, jan, jcams, jidx, jnow, cutoff, todo, fs0>>
    /\ UNCHANGED <<supVars, appVars>>

\* an encoder process writes a segment and its playlist (a terminated one,
\* the playlist's end) into the minute directory it was started in
EncWrite(b) ==
    /\ b \in DOMAIN procs
    /\ b \in DOMAIN fs
    /\ fs' = Touch(fs, b)
    /\ UNCHANGED <<now, jan, jcams, jidx, jnow, cutoff, todo, rec, procs, fs0>>
    /\ UNCHANGED <<supVars, appVars>>

\* an encoder process exits: on its own, or after terminate()
EncExit(b) ==
    /\ b \in DOMAIN procs
    /\ procs' = WithoutProc(procs, b)
    /\ UNCHANGED <<now, fs, jan, jcams, jidx, jnow, cutoff, todo, rec, fs0>>
    /\ UNCHANGED <<supVars, appVars>>

\* CameraRecorder.run: a frame is read and encoded; ts = datetime.utcnow()
JpegStamp ==
    /\ rec.kind = "jpeg"
    /\ rec.pc = "frame"
    /\ rec' = [rec EXCEPT !.ts = MinuteOf(now), !.pc = "mkdir"]
    /\ UNCHANGED <<now, fs, jan, jcams, jidx, jnow, cutoff, todo, procs, fs0>>
    /\ UNCHANGED <<supVars, appVars>>

\* _ensure_dir(subdir); when os.makedirs has a directory to create and
\* fails, its OSError ends run() and the thread
JpegMkdir ==
    /\ rec.kind = "jpeg"
    /\ rec.pc = "mkdir"
    /\ \E mk \in BOOLEAN :
        IF rec.ts \notin DOMAIN fs /\ ~mk
        THEN /\ rec' = [rec EXCEPT !.pc = "crashed"]
             /\ UNCHANGED fs
        ELSE /\ fs' = EnsureDir(fs, rec.ts)
             /\ rec' = [rec EXCEPT !.pc = "write"]
    /\ UNCHANGED <<now, jan, jcams, jidx, jnow, cutoff, todo, procs, fs0>>
    /\ UNCHANGED <<supVars, appVars>>

\* with open(fpath, 'wb') as f: f.write(...); a failure skips the frame
JpegWrite ==
    /\ rec.kind = "jpeg"
    /\ rec.pc = "write"
    /\ fs' = IF rec.ts \in DOMAIN fs THEN Touch(fs, rec.ts) ELSE fs
    /\ rec' = [rec EXCEPT !.pc = "frame"]
    /\ UNCHANGED <<now, jan, jcams, jidx, jnow, cutoff, todo, procs, fs0>>
    /\ UNCHANGED <<supVars, appVars>>

(***************************************************************************)
(* Specification of the recordings tree: clock, janitor, one recorder      *)
(***************************************************************************)
SupParked ==
    /\ threads = <<>> /\ workers = <<>> /\ ctl_stop = FALSE /\ sup = "parked"
    /\ cams = <<>> /\ idx = 1 /\ active_ids = {} /\ sweep = <<>>
    /\ mgr = "idle" /\ stopTodo = <<>> /\ isAliveRaises = FALSE /\ edits = 0
    /\ hist = [same |-> FALSE, quietPrev |-> TRUE, quietCur |-> TRUE,
               acted |-> FALSE, passes |-> 0, fetched |-> TRUE]

\* Documents of the camera without recordings, and of the recorded one
OtherDocs ==
    {Doc(TRUE, "rtsp://cam", "hls", NoRetention),
     Doc(TRUE, "rtsp://cam", "hls", HugeRetention)}
RecDocs ==
    {Doc(TRUE, "rtsp://cam", mode, rh) :
        mode \in {"hls", "jpeg"}, rh \in RetentionValues}

InitFs ==
    /\ db \in {d \in [Cams -> OtherDocs \cup RecDocs] :
                 d[RecCam] \in RecDocs /\ \A c \in Cams \ {RecCam} : d[c] \in OtherDocs}
    /\ now = StartTick
    /\ fs = [m \in InitialDirs |->
               IF m = StrayDir
               THEN (StartMinute - MinutesPerHour - 1) * TicksPerMinute
               ELSE m * TicksPerMinute]
    /\ jan = "fetch"
    /\ jcams = <<>>
    /\ jidx = 1
    /\ jnow = StartTick
    /\ cutoff = 0
    /\ todo = {}
    /\ fs0 = {}
    /\ rec = [kind |-> TagFor(ModeOf(db[RecCam])), pc |-> "frame",
              cur |-> None, ts |-> None, proc |-> None]
    /\ procs = <<>>
    /\ SupParked
    /\ AppParked

NextFs ==
    \/ Tick
    \/ JanitorFetch
    \/ JanitorCam
    \/ \E m \in todo : JanitorVisit(m)
    \/ JanitorCamEnd
    \/ JanitorEnd
    \/ JanitorWake
    \/ HlsPoll
    \/ \E b \in DOMAIN procs : EncWrite(b)
    \/ \E b \in DOMAIN procs : EncExit(b)
    \/ JpegStamp
    \/ JpegMkdir
    \/ JpegWrite

SpecFs == InitFs /\ [][NextFs]_vars

(***************************************************************************)
(* Properties of the recordings tree                                       *)
(***************************************************************************)
\* The stored retention_hours the sweep read for the recorded camera, as a
\* set: empty when the list the sweep read lacks the camera
SweptRetention ==
    {jcams[i].retention_hours : i \in {j \in DOMAIN jcams : jcams[j].id = RecCam}}

OpenBuckets ==
    IF rec.kind = "hls"
    THEN IF ProcLive(procs, rec.proc) THEN {rec.proc} ELSE {}
    ELSE IF rec.pc = "write" THEN {rec.ts} ELSE {}

\* C6: no step removes the minute directory the recorder is writing into,
\* whatever retention_hours the camera has stored.
C6_JanitorSparesOpenBucket ==
    [][\A m \in OpenBuckets : m \in DOMAIN fs => m \in DOMAIN fs']_vars

\* C7: while the sweep walks the tree of a camera whose stored
\* retention_hours is one normalize_camera_payload would not store (unset,
\* not a number, not positive), its cutoff is the sweep's time less 24 hours.
C7_DefaultCutoffForInvalid ==
    (jan = "walk"
        /\ NormalizeRetention(jcams[jidx].retention_hours) = NoRetention)
    => cutoff = jnow - DefaultRetentionHours * TicksPerHour

\* C8: no step creates, or changes the content of, a dated minute
\* directory whose minute the clock has passed; such a directory only
\* disappears.
C8_SealedBucketImmutable ==
    [][\A m \in DOMAIN fs' \ {StrayDir} :
            m < MinuteOf(now) => (m \in DOMAIN fs /\ fs'[m] = fs[m])]_vars

\* C24: at every rotation the previous encoder process has exited before
\* the new one is started, so the worker never has two live encoder
\* processes at once.
C24_OneLiveEncoder ==
    Cardinality(DOMAIN procs) <= 1

WebDocs == {Absent, Doc(TRUE, "rtsp://cam", "hls", NoRetention)}

\* a request arrives: before_request, then the view
RequestBegin ==
    /\ req = "none"
    /\ req' = "view"
    /\ UNCHANGED <<exiting, served>>
    /\ UNCHANGED <<supVars, fsVars, genVars, stVars, clipVars,
                   snapVars, loopVars, restVars>>

\* the view runs: it reads, or it inserts, updates or deletes a camera (as
\* EditCamera, at the point where the supervisor can tell)
RequestView ==
    /\ req = "view"
    /\ \/ UNCHANGED <<db, edits>>
       \/ /\ edits < MaxEdits
          /\ sup = "sleep" \/ (sup = "loop" /\ hist.passes = 0)
          /\ \E c \in Cams, doc \in WebDocs :
                /\ doc # db[c]
                /\ db' = [db EXCEPT ![c] = doc]
          /\ edits' = edits + 1
    /\ req' = "teardown"
    /\ UNCHANGED <<threads, workers, ctl_stop, sup, cams, idx, active_ids,
                   sweep, mgr, stopTodo, isAliveRaises, hist>>
    /\ UNCHANGED <<exiting, served>>
    /\ UNCHANGED <<fsVars, genVars, stVars, clipVars,
                   snapVars, loopVars, restVars>>

\* a teardown that calls app.recorder_manager.stop()
RequestTeardownStops ==
    /\ req = "teardown"
    /\ req' = "none"
    /\ served' = TRUE
    /\ ctl_stop' = TRUE
    /\ UNCHANGED <<db, threads, workers, sup, cams, idx, active_ids, sweep,
                   mgr, stopTodo, isAliveRaises, edits, hist>>
    /\ UNCHANGED exiting
    /\ UNCHANGED <<fsVars, genVars, stVars, clipVars,
                   snapVars, loopVars, restVars>>

\* the request's teardown: create_app registers no teardown handler
RequestTeardown ==
    /\ req = "teardown"
    /\ req' = "none"
    /\ served' = TRUE
    /\ UNCHANGED exiting
    /\ UNCHANGED <<supVars, fsVars, genVars, stVars, clipVars,
                   snapVars, loopVars, restVars>>

\* the interpreter exits: the atexit hooks are run
ProcessExit ==
    /\ ~exiting
    /\ exiting' = TRUE
    /\ UNCHANGED <<req, served>>
    /\ UNCHANGED <<supVars, fsVars, genVars, stVars, clipVars,
                   snapVars, loopVars, restVars>>

\* _shutdown_recorders, registered with atexit: mgr.stop()
ShutdownRecorders ==
    /\ exiting
    /\ StopSet

NextWeb ==
    \/ SupExit
    \/ SupPass
    \/ \E w \in WorkerIds : WorkerExit(w)
    \/ \E w \in WorkerIds : WorkerCrash(w)
    \/ RequestBegin
    \/ RequestView
    \/ RequestTeardown
    \/ ProcessExit
    \/ ShutdownRecorders
    \/ StopSnapshot
    \/ StopStep
    \/ StopReturn

SpecWeb == Init /\ [][NextWeb]_vars

\* C11: a step of a request, its teardown included, leaves the global stop
\* signal, every worker and the position of stop() as they are, and stop()
\* is entered only when the process is exiting.
C11_RequestsNeverStop ==
    [][/\ req' # req =>
            (ctl_stop' = ctl_stop /\ workers' = workers /\ mgr' = mgr)
       /\ (mgr = "idle" /\ mgr' # "idle") => exiting]_vars

\* C11, witness: a request was served to the end of its teardown while a
\* worker runs, and neither the global signal nor the worker's is set.
C11_Witness ==
    /\ served
    /\ ~exiting
    /\ ~ctl_stop
    /\ \E w \in WorkerIds : workers[w].st = "alive" /\ ~workers[w].stop

(***************************************************************************)
(* The live preview (cameras/utils.py): open_capture and mjpeg_generator,  *)
(* pulled and closed by the response that streams it                       *)
(***************************************************************************)
MaxGenTicks == 4

\* frame_interval = 1.0 / max(1.0, float(fps)), heartbeat_interval and
\* idle_reconnect, in ticks
FrameIntervals == {1, 2}
HeartbeatIntervals == {1, 3}
IdleReconnects == {2}

\* The frames the camera delivers
Frames == {1, 2}

\* The chunks: the RTSP error text, the heartbeat's text part ".", and an
\* image part holding the encoded frame
ErrorChunk == [type |-> "error", data |-> 0]
HeartbeatChunk == [type |-> "text", data |-> 0]
ImageChunk(f) == [type |-> "image", data |-> f]

\* cap.release() that releases nothing
ReleaseNothing(ss, c) == ss

\* cap.release()
Release(ss, c) == [ss EXCEPT ![c] = "released"]

\* try: cap = open_capture(rtsp, connect_timeout): the session opens, or it
\* does not within connect_timeout and is released, or OpenCV is missing
\* and none is created. When it raises, the RTSP error part is yielded.
GenOpen ==
    /\ gen.pc = "start"
    /\ \E r \in {"ok", "timeout", "nocv"} :
        IF r = "ok"
        THEN /\ sessions' = Append(sessions, "open")
             /\ gen' = [gen EXCEPT !.pc = "loop", !.cap = Len(sessions) + 1,
                                   !.last = gclock, !.last_send = gclock]
             /\ ghist' = [ghist EXCEPT !.lastOk = gclock]
             /\ UNCHANGED gout
        ELSE /\ sessions' = IF r = "timeout"
                            THEN Append(sessions, "released") ELSE sessions
             /\ gen' = [gen EXCEPT !.pc = "yield_error"]
             /\ gout' = ErrorChunk
             /\ UNCHANGED ghist
    /\ UNCHANGED <<gclock, gpar>>
    /\ UNCHANGED <<supVars, fsVars, webVars, stVars, clipVars,
                   snapVars, loopVars, restVars>>

\* while True: now = time.time(); the wait for the next frame's time with
\* its heartbeat, or last = now before the read
GenLoop ==
    /\ gen.pc = "loop"
    /\ IF gclock - gen.last < gpar.frame_interval
       THEN IF gclock - gen.last_send > gpar.heartbeat_interval
            THEN /\ gout' = HeartbeatChunk
                 /\ gen' = [gen EXCEPT !.now = gclock, !.pc = "yield_hb"]
            ELSE /\ gen' = [gen EXCEPT !.now = gclock]
                 /\ UNCHANGED gout
       ELSE /\ gen' = [gen EXCEPT !.now = gclock, !.last = gclock,
                                  !.pc = "read"]
            /\ UNCHANGED gout
    /\ UNCHANGED <<gclock, gpar, sessions, ghist>>
    /\ UNCHANGED <<supVars, fsVars, webVars, stVars, clipVars,
                   snapVars, loopVars, restVars>>

\* ok, frame = cap.read() with what follows it: the reconnect test of a
\* failed read, cv2.imencode and the yield of the image part; an exception
\* of read or imencode passes through the finally clause
GenRead ==
    /\ gen.pc = "read"
    /\ \/ \E f \in Frames, encoded \in BOOLEAN :
            /\ ghist' = [ghist EXCEPT !.lastOk = gclock, !.read = "ok",
                             !.lastImg = IF encoded THEN f ELSE @]
            /\ gout' = IF encoded THEN ImageChunk(f) ELSE gout
            /\ gen' = [gen EXCEPT !.pc = IF encoded THEN "yield_img"
                                                    ELSE "loop"]
            /\ UNCHANGED sessions
       \/ /\ ghist' = [ghist EXCEPT !.read = "fail"]
          /\ IF gen.now - gen.last_send > gpar.idle_reconnect
             THEN /\ sessions' = Release(sessions, gen.cap)
                  /\ gen' = [gen EXCEPT !.pc = "reopen"]
             ELSE /\ gen' = [gen EXCEPT !.pc = "loop"]
                  /\ UNCHANGED sessions
          /\ UNCHANGED gout
       \/ /\ sessions' = Release(sessions, gen.cap)
          /\ gen' = [gen EXCEPT !.pc = "done"]
          /\ ghist' = [ghist EXCEPT !.end = "raise"]
          /\ UNCHANGED gout
    /\ UNCHANGED <<gclock, gpar>>
    /\ UNCHANGED <<supVars, fsVars, webVars, stVars, clipVars,
                   snapVars, loopVars, restVars>>

\* try: cap = open_capture(...) except Exception: time.sleep(1); continue
GenReopen ==
    /\ gen.pc = "reopen"
    /\ \E ok \in BOOLEAN :
        IF ok
        THEN /\ sessions' = Append(sessions, "open")
             /\ gen' = [gen EXCEPT !.pc = "loop", !.cap = Len(sessions) + 1]
        ELSE /\ sessions' = Append(sessions, "released")
             /\ gen' = [gen EXCEPT !.pc = "loop"]
    /\ UNCHANGED <<gclock, gpar, gout, ghist>>
    /\ UNCHANGED <<supVars, fsVars, webVars, stVars, clipVars,
                   snapVars, loopVars, restVars>>

\* the response pulls the next chunk: the generator goes on after its yield
GenResume ==
    /\ gen.pc \in {"yield_error", "yield_hb", "yield_img"}
    /\ CASE gen.pc = "yield_error" ->
              /\ gen' = [gen EXCEPT !.pc = "done"]
              /\ ghist' = [ghist EXCEPT !.end = "return"]
         [] gen.pc = "yield_hb" ->
              /\ gen' = [gen EXCEPT !.pc = "loop", !.last_send = gen.now]
              /\ UNCHANGED ghist
         [] gen.pc = "yield_img" ->
              /\ gen' = [gen EXCEPT !.pc = "loop", !.last_send = gclock]
              /\ ghist' = [ghist EXCEPT !.lastOk = gclock]
    /\ UNCHANGED <<gclock, gpar, sessions, gout>>
    /\ UNCHANGED <<supVars, fsVars, webVars, stVars, clipVars,
                   snapVars, loopVars, restVars>>

\* the viewer is gone: the response closes the generator at its yield
\* (GeneratorExit; finally: cap.release()), or before its first chunk
GenClose ==
    /\ gen.pc \in {"start", "yield_error", "yield_hb", "yield_img"}
    /\ sessions' = IF gen.pc \in {"yield_hb", "yield_img"}
                   THEN Release(sessions, gen.cap) ELSE sessions
    /\ gen' = [gen EXCEPT !.pc = "done"]
    /\ ghist' = [ghist EXCEPT !.end = "close"]
    /\ UNCHANGED <<gclock, gpar, gout>>
    /\ UNCHANGED <<supVars, fsVars, webVars, stVars, clipVars,
                   snapVars, loopVars, restVars>>

\* time passes: in a sleep, in a read, in open_capture, between two pulls
GenTick ==
    /\ gen.pc # "done"
    /\ gclock < MaxGenTicks
    /\ gclock' = gclock + 1
    /\ UNCHANGED <<gpar, gen, sessions, gout, ghist>>
    /\ UNCHANGED <<supVars, fsVars, webVars, stVars, clipVars,
                   snapVars, loopVars, restVars>>

InitGen ==
    /\ gclock = 0
    /\ gpar \in [frame_interval : FrameIntervals,
                 heartbeat_interval : HeartbeatIntervals,
                 idle_reconnect : IdleReconnects]
    /\ gen = [pc |-> "start", now |-> 0, last |-> 0, last_send |-> 0,
              cap |-> 0]
    /\ sessions = <<>>
    /\ gout = [type |-> "none", data |-> 0]
    /\ ghist = [lastImg |-> 0, lastOk |-> 0, read |-> "none", end |-> "none"]
    /\ db = [c \in Cams |-> Absent]
    /\ SupParked
    /\ FsParked
    /\ WebParked
    /\ StParked
    /\ ClipParked
    /\ SnapParked
    /\ LoopParked
    /\ RestParked

NextGen ==
    \/ GenOpen
    \/ GenLoop
    \/ GenRead
    \/ GenReopen
    \/ GenResume
    \/ GenClose
    \/ GenTick

SpecGen == InitGen /\ [][NextGen]_vars

(***************************************************************************)
(* Properties of the live preview                                          *)
(***************************************************************************)
\* C12: a read that fails when no frame has been read, or handed to the
\* viewer, for longer than idle_reconnect (by the loop's now) is followed
\* by the release of the session and a reopen attempt, never by a plain
\* retry.
C12_ReconnectWhenIdle ==
    [][(gen.pc = "read" /\ gen'.pc = "loop" /\ ghist'.read = "fail")
         => ~(gen.now - ghist.lastOk > gpar.idle_reconnect)]_vars

\* C13: a heartbeat yielded after an image frame was sent is that image
\* frame's chunk again.
C13_HeartbeatIsLastFrame ==
    (gen.pc = "yield_hb" /\ ghist.lastImg # 0)
    => gout = ImageChunk(ghist.lastImg)

\* C14: the generator finishes only by the consumer closing it.
C14_EndsOnlyByClose ==
    gen.pc = "done" => ghist.end = "close"

\* C15: when the generator has finished, every session it created is
\* released.
C15_AllSessionsReleased ==
    gen.pc = "done" => \A i \in DOMAIN sessions : sessions[i] = "released"

\* C15, witness: the generator has finished, closed by the consumer after a
\* heartbeat or a frame, having opened a first session and a second one by
\* a reconnect.
C15_Witness ==
    /\ gen.pc = "done"
    /\ ghist.end = "close"
    /\ Len(sessions) >= 2
    /\ gen.cap = Len(sessions)
    /\ \A i \in DOMAIN sessions : sessions[i] = "released"

\* The synthetic image part a viewer without a frame would be shown
PlaceholderChunk == [type |-> "image", data |-> 0]

\* C30: when a reopen fails and no frame was ever sent to the viewer, the
\* generator emits one synthetic placeholder image, then backs off and
\* tries the reopen again.
C30_PlaceholderAfterFailedReopen ==
    [][(gen.pc = "reopen" /\ gen'.pc # "reopen" /\ gen'.cap = gen.cap
            /\ ghist.lastImg = 0) =>
          /\ gen'.pc \notin {"done", "yield_error"}
          /\ gout' = PlaceholderChunk]_vars

(***************************************************************************)
(* The stitched playlist (cameras/routes.py: api_concat_hls_playlist)      *)
(***************************************************************************)
MaxMinutes == 2
MaxSegs == 3

\* The minute directories of the camera inside the requested range
Minutes == 1..MaxMinutes

\* Segment durations, in ms
Durations == {2000, 2500}

\* dur_val = last_dur if last_dur is not None else 2.0, in ms
DefaultSegmentMs == 2000

\* A line of a playlist: its tag and up to two numbers
Line(t, a, b) == [t |-> t, a |-> a, b |-> b]

\* ceil(max_target), of a duration in ms, in s
CeilSec(ms) == (ms + 999) \div 1000

RECURSIVE SeqMax(_)
SeqMax(seq) ==
    IF seq = <<>> THEN 0
    ELSE LET m == SeqMax(Tail(seq))
         IN  IF Head(seq) > m THEN Head(seq) ELSE m

\* index.m3u8 of minute m as the recorder's ffmpeg writes it (hls_flags
\* program_date_time): #EXT-X-TARGETDURATION, then per segment
\* #EXT-X-PROGRAM-DATE-TIME, #EXTINF and the segment's file name
ManifestLines(m, durs) ==
    IF durs = <<>> THEN <<>>
    ELSE [i \in 1..(1 + 3 * Len(durs)) |->
            IF i = 1 THEN Line("TD", CeilSec(SeqMax(durs)), 0)
            ELSE LET k == ((i - 2) \div 3) + 1
                     r == (i - 2) % 3
                 IN  CASE r = 0 -> Line("PDT", m * 10 + k, 0)
                       [] r = 1 -> Line("INF", durs[k], 0)
                       [] OTHER -> Line("SEG", k, 0)]

\* A minute directory: without index.m3u8, with one that cannot be opened,
\* or with one of up to MaxSegs segments
DirChoices ==
    {[kind |-> "none", durs |-> <<>>], [kind |-> "unreadable", durs |-> <<>>]}
    \cup {[kind |-> "ok", durs |-> d] :
            d \in UNION {[1..n -> Durations] : n \in 0..MaxSegs}}

RECURSIVE Descending(_)
Descending(S) ==
    IF S = {} THEN <<>>
    ELSE LET m == CHOOSE x \in S : \A y \in S : y <= x
         IN  <<m>> \o Descending(S \ {m})

\* the collected minutes, latest first
MinutePathsLatestFirst(d) ==
    Descending({m \in DOMAIN d : d[m].kind # "none"})

RECURSIVE Ascending(_)
Ascending(S) ==
    IF S = {} THEN <<>>
    ELSE LET m == CHOOSE x \in S : \A y \in S : x <= y
         IN  <<m>> \o Ascending(S \ {m})

\* minute_paths: the directories holding an index.m3u8, sorted by their time
MinutePaths(d) ==
    Ascending({m \in DOMAIN d : d[m].kind # "none"})

\* The time of minute directory m, datetime(y, m, d, h, mi), in ticks
BucketTime(m) == m * TicksPerMinute

\* a range that leaves out the directory dated exactly at its end
InRangeHalfOpen(dt, start_dt, end_dt) == dt >= start_dt /\ dt < end_dt

\* if dt < start_dt or dt > end_dt: continue
InRange(dt, start_dt, end_dt) == ~(dt < start_dt \/ dt > end_dt)

\* start_dt = _parse_iso(start) if start else now - timedelta(minutes=60);
\* end_dt = _parse_iso(end) if end else now
StartOrDefault(start, t) == IF start # None THEN start ELSE t - TicksPerHour
EndOrDefault(end, t) == IF end # None THEN end ELSE t

\* if end_dt < start_dt: start_dt, end_dt = end_dt, start_dt
RangeStart(s, e) == IF e < s THEN e ELSE s
RangeEnd(s, e) == IF e < s THEN s ELSE e

\* The minute directories the walk keeps: those dated inside the range
RangeDirs(d, start_dt, end_dt) ==
    [m \in {x \in DOMAIN d : InRange(BucketTime(x), start_dt, end_dt)}
        |-> d[m]]

\* a manifest that cannot be opened ends the loop over the minutes
AbortOnFailedOpen(s) == [s EXCEPT !.i = Len(s.paths) + 1]

\* except Exception: continue
SkipFailedOpen(s) == [s EXCEPT !.i = @ + 1]

\* a boundary that marks every segment after the first
BoundaryEverySegment(first, minute_first) ==
    IF first THEN "header" ELSE "disc"

\* if first: ... elif minute_first: ...
Boundary(first, minute_first) ==
    IF first THEN "header" ELSE IF minute_first THEN "disc" ELSE "none"

\* the lines appended before a segment's #EXTINF
BoundaryLines(kind, s) ==
    CASE kind = "header" ->
            <<Line("MEDIA-SEQUENCE", s.media_seq, 0)>>
            \o (IF s.max_target # 0
                THEN <<Line("TARGETDURATION", CeilSec(s.max_target), 0)>>
                ELSE <<>>)
            \o (IF s.first_pdt # None
                THEN <<Line("PDT", s.first_pdt, 0)>> ELSE <<>>)
      [] kind = "disc" ->
            <<Line("DISCONTINUITY", 0, 0)>>
            \o (IF s.cur_pdt # None
                THEN <<Line("PDT", s.cur_pdt, 0)>> ELSE <<>>)
      [] OTHER -> <<>>

\* the directory walk, the sort, and the locals before the loop
StitchCollect ==
    /\ stitch.pc = "start"
    /\ LET s == StartOrDefault(stitch.start, stitch.now)
           e == EndOrDefault(stitch.end, stitch.now)
           start_dt == RangeStart(s, e)
           end_dt == RangeEnd(s, e)
       IN  stitch' = [stitch EXCEPT !.pc = "minute",
                     !.start_dt = start_dt, !.end_dt = end_dt,
                     !.paths = MinutePaths(RangeDirs(dirs, start_dt, end_dt)),
                     !.i = 1,
                     !.lines = <<Line("EXTM3U", 0, 0), Line("VERSION", 3, 0)>>]
    /\ UNCHANGED dirs
    /\ UNCHANGED <<supVars, fsVars, webVars, genVars, clipVars,
                   snapVars, loopVars, restVars>>

\* for dt, rel, mip in minute_paths: open(pl); except Exception: continue
StitchOpen ==
    /\ stitch.pc = "minute"
    /\ stitch.i <= Len(stitch.paths)
    /\ stitch' =
         IF dirs[stitch.paths[stitch.i]].kind = "ok"
         THEN [stitch EXCEPT !.pc = "line", !.l = 1, !.last_dur = None,
                             !.cur_pdt = None, !.minute_first = TRUE]
         ELSE SkipFailedOpen(stitch)
    /\ UNCHANGED dirs
    /\ UNCHANGED <<supVars, fsVars, webVars, genVars, clipVars,
                   snapVars, loopVars, restVars>>

\* The manifest being read
CurLines == ManifestLines(stitch.paths[stitch.i],
                          dirs[stitch.paths[stitch.i]].durs)

\* for raw in pf: one line of the manifest
StitchLine ==
    /\ stitch.pc = "line"
    /\ stitch.l <= Len(CurLines)
    /\ LET ln == CurLines[stitch.l]
           kind == Boundary(stitch.first, stitch.minute_first)
           dur_val == IF stitch.last_dur # None THEN stitch.last_dur
                      ELSE DefaultSegmentMs
       IN  stitch' =
             CASE ln.t = "TD" ->
                    [stitch EXCEPT !.l = @ + 1,
                        !.max_target = IF ln.a * 1000 > @ THEN ln.a * 1000 ELSE @]
               [] ln.t = "PDT" ->
                    [stitch EXCEPT !.l = @ + 1, !.cur_pdt = ln.a,
                        !.first_pdt = IF @ = None THEN ln.a ELSE @]
               [] ln.t = "INF" ->
                    [stitch EXCEPT !.l = @ + 1, !.last_dur = ln.a,
                        !.max_target = IF ln.a > @ THEN ln.a ELSE @]
               [] OTHER ->
                    [stitch EXCEPT !.l = @ + 1,
                        !.lines = @ \o BoundaryLines(kind, stitch)
                                    \o <<Line("EXTINF", dur_val, 0),
                                         Line("URI", stitch.paths[stitch.i], ln.a)>>,
                        !.first = FALSE, !.minute_first = FALSE,
                        !.media_seq = @ + 1]
    /\ UNCHANGED dirs
    /\ UNCHANGED <<supVars, fsVars, webVars, genVars, clipVars,
                   snapVars, loopVars, restVars>>

\* the manifest is read to its end
StitchMinuteEnd ==
    /\ stitch.pc = "line"
    /\ stitch.l > Len(CurLines)
    /\ stitch' = [stitch EXCEPT !.pc = "minute", !.i = @ + 1]
    /\ UNCHANGED dirs
    /\ UNCHANGED <<supVars, fsVars, webVars, genVars, clipVars,
                   snapVars, loopVars, restVars>>

\* lines.append('#EXT-X-ENDLIST'); the response
StitchEnd ==
    /\ stitch.pc = "minute"
    /\ stitch.i > Len(stitch.paths)
    /\ stitch' = [stitch EXCEPT !.pc = "done",
                                !.lines = Append(@, Line("ENDLIST", 0, 0))]
    /\ UNCHANGED dirs
    /\ UNCHANGED <<supVars, fsVars, webVars, genVars, clipVars,
                   snapVars, loopVars, restVars>>

\* The locals of a request at its start: now = datetime.utcnow() and the
\* start and end of its query string, None when left out
StitchStart(t, start, end) ==
    [pc |-> "start", now |-> t, start |-> start, end |-> end,
     start_dt |-> None, end_dt |-> None,
     paths |-> <<>>, i |-> 1, l |-> 1,
     lines |-> <<>>, max_target |-> 0, media_seq |-> 0,
     first_pdt |-> None, first |-> TRUE, last_dur |-> None,
     cur_pdt |-> None, minute_first |-> TRUE]

\* A request without start and end, made when every minute directory is
\* of the last hour and the clock is in the minute after the last of them
InitSt ==
    /\ dirs \in [Minutes -> DirChoices]
    /\ stitch = StitchStart((MaxMinutes + 1) * TicksPerMinute, None, None)
    /\ db = [c \in Cams |-> Absent]
    /\ SupParked
    /\ FsParked
    /\ WebParked
    /\ GenParked
    /\ ClipParked
    /\ SnapParked
    /\ LoopParked
    /\ RestParked

NextSt ==
    \/ StitchCollect
    \/ StitchOpen
    \/ StitchLine
    \/ StitchMinuteEnd
    \/ StitchEnd

SpecSt == InitSt /\ [][NextSt]_vars

\* A minute directory of a request with a range: without index.m3u8, with
\* one that cannot be opened, with an empty one or with one of one segment
RangeDirChoices ==
    {[kind |-> "none", durs |-> <<>>], [kind |-> "unreadable", durs |-> <<>>],
     [kind |-> "ok", durs |-> <<>>]}
    \cup {[kind |-> "ok", durs |-> <<d>>] : d \in Durations}

\* The times a query string names: from the first tick of the first minute
\* directory to the first tick after the last
RangeTimes == TicksPerMinute .. ((MaxMinutes + 1) * TicksPerMinute)

\* A request with or without start and end, made in the second tick of
\* the last minute directory's minute: the recorder is writing into it
InitRange ==
    /\ dirs \in [Minutes -> RangeDirChoices]
    /\ \E start, end \in RangeTimes \cup {None} :
          stitch = StitchStart(MaxMinutes * TicksPerMinute + 1, start, end)
    /\ db = [c \in Cams |-> Absent]
    /\ SupParked
    /\ FsParked
    /\ WebParked
    /\ GenParked
    /\ ClipParked
    /\ SnapParked
    /\ LoopParked
    /\ RestParked

SpecRange == InitRange /\ [][NextSt]_vars

(***************************************************************************)
(* Properties of the stitched playlist                                     *)
(***************************************************************************)
\* Positions of the segment uris and of the discontinuity markers in the
\* stitched playlist
UriAt == {i \in DOMAIN stitch.lines : stitch.lines[i].t = "URI"}
MarkerAt == {i \in DOMAIN stitch.lines : stitch.lines[i].t = "DISCONTINUITY"}

\* The position of the uri before position i, 0 when there is none
PrevUri(i) ==
    IF \E j \in UriAt : j < i
    THEN CHOOSE j \in UriAt : j < i /\ \A k \in UriAt : k < i => k <= j
    ELSE 0

\* The uri at position i is the first one of its minute
FirstOfMinute(i) ==
    ~\E j \in UriAt : j < i /\ stitch.lines[j].a = stitch.lines[i].a

\* C16: in the finished playlist a segment's entry is preceded by a
\* discontinuity marker exactly if the segment is the first one of a minute
\* other than the first minute that contributes a segment; a marker is
\* followed, up to the segment's uri, by nothing but that entry's
\* date-time and #EXTINF lines, and no entry has two markers.
C16_MarkerAtMinuteStarts ==
    stitch.pc = "done" =>
        /\ \A i \in UriAt :
              (\E d \in MarkerAt : PrevUri(i) < d /\ d < i)
              <=> (FirstOfMinute(i) /\ PrevUri(i) # 0)
        /\ \A d \in MarkerAt :
              \E i \in UriAt :
                  /\ PrevUri(i) < d /\ d < i
                  /\ \A k \in (d + 1)..(i - 1) :
                        stitch.lines[k].t \in {"PDT", "EXTINF"}
                  /\ \A e \in MarkerAt : (PrevUri(i) < e /\ e < i) => e = d

\* C16, witness: two minutes of three segments each are stitched; the one
\* marker stands between the third and the fourth segment.
C16_Witness ==
    /\ stitch.pc = "done"
    /\ \A m \in {1, 2} : dirs[m].kind = "ok" /\ Len(dirs[m].durs) = 3
    /\ Cardinality(UriAt) = 6
    /\ Cardinality(MarkerAt) = 1
    /\ \A d \in MarkerAt :
          Cardinality({i \in UriAt : i < d}) = 3

\* The durations of all segments of all readable manifests collected
AllDurations ==
    UNION {{dirs[m].durs[k] : k \in DOMAIN dirs[m].durs} :
              m \in {x \in DOMAIN dirs : dirs[x].kind = "ok"}}

\* C17: the target duration written in the finished playlist is the
\* largest segment duration of all the manifests included, rounded up.
C17_TargetDurationIsMax ==
    stitch.pc = "done" =>
        \A i \in DOMAIN stitch.lines :
            stitch.lines[i].t = "TARGETDURATION" =>
                /\ \A d \in AllDurations : stitch.lines[i].a >= CeilSec(d)
                /\ \E d \in AllDurations : stitch.lines[i].a = CeilSec(d)

\* The segments of the readable manifests, minute by minute in time order,
\* each as <<minute, file name>>
RECURSIVE SegmentsFrom(_)
SegmentsFrom(m) ==
    IF m > MaxMinutes THEN <<>>
    ELSE (IF dirs[m].kind = "ok"
          THEN [k \in 1..Len(dirs[m].durs) |-> <<m, k>>] ELSE <<>>)
         \o SegmentsFrom(m + 1)

\* The segments the stitched playlist lists, in its order
Listed ==
    LET uris == SelectSeq(stitch.lines, LAMBDA ln : ln.t = "URI")
    IN  [i \in 1..Len(uris) |-> <<uris[i].a, uris[i].b>>]

\* C18: the finished playlist lists the segments of the readable manifests
\* once each, by minute and then by position; its media sequence starts at
\* zero and the running counter ends at the number of segments listed.
C18_EverySegmentOnceInOrder ==
    stitch.pc = "done" =>
        /\ Listed = SegmentsFrom(1)
        /\ stitch.media_seq = Len(Listed)
        /\ \A i \in DOMAIN stitch.lines :
              stitch.lines[i].t = "MEDIA-SEQUENCE" => stitch.lines[i].a = 0

\* C18, witness: two minutes with segments, and an unreadable manifest or
\* none, are stitched.
C18_Witness ==
    /\ stitch.pc = "done"
    /\ Len(Listed) >= 4
    /\ \E m \in Minutes : dirs[m].kind = "ok" /\ Len(dirs[m].durs) >= 2
    /\ Cardinality({Listed[i][1] : i \in DOMAIN Listed}) = 2

\* C31: the stitched playlist holds segments of sealed buckets only: the
\* bucket of the minute the clock is in, which a recorder is writing,
\* contributes no segment, also when the request names no end.
C31_OnlySealedBuckets ==
    stitch.pc = "done" =>
        \A i \in UriAt : stitch.lines[i].a # MinuteOf(stitch.now)

\* The segments of the readable manifests without those of minute x
RECURSIVE SegmentsWithout(_, _)
SegmentsWithout(x, m) ==
    IF m > MaxMinutes THEN <<>>
    ELSE (IF m # x /\ dirs[m].kind = "ok"
          THEN [k \in 1..Len(dirs[m].durs) |-> <<m, k>>] ELSE <<>>)
         \o SegmentsWithout(x, m + 1)

\* C32: with a bucket whose manifest is missing or cannot be opened, the
\* finished playlist still starts with the header and ends with the
\* end-of-list marker, and lists the segments of the other buckets as it
\* would without that bucket, in the same order.
C32_FailingBucketSkipped ==
    stitch.pc = "done" =>
        \A x \in Minutes :
            dirs[x].kind \in {"none", "unreadable"} =>
                /\ stitch.lines[1].t = "EXTM3U"
                /\ stitch.lines[Len(stitch.lines)].t = "ENDLIST"
                /\ \A i \in 1..(Len(stitch.lines) - 1) :
                      stitch.lines[i].t # "ENDLIST"
                /\ Listed = SegmentsWithout(x, 1)

\* C32, witness: the first bucket's manifest cannot be opened, the second
\* bucket's segments are listed.
C32_Witness ==
    /\ stitch.pc = "done"
    /\ dirs[1].kind = "unreadable"
    /\ dirs[MaxMinutes].kind = "ok"
    /\ Len(Listed) >= 2

\* The range a request asks for: its start and end, or their defaults, the
\* earlier one first
AskedStart ==
    RangeStart(StartOrDefault(stitch.start, stitch.now),
               EndOrDefault(stitch.end, stitch.now))
AskedEnd ==
    RangeEnd(StartOrDefault(stitch.start, stitch.now),
             EndOrDefault(stitch.end, stitch.now))

\* C39: the stitcher includes a bucket exactly if it holds a manifest and
\* its minute t has start <= t <= end, start and end swapped when the end
\* is before the start; the bucket of the minute a start off the minute
\* boundary falls in is not included.
C39_BucketsOfClosedRange ==
    stitch.pc # "start" =>
        /\ {stitch.paths[i] : i \in DOMAIN stitch.paths} =
              {m \in Minutes : /\ dirs[m].kind # "none"
                               /\ AskedStart <= BucketTime(m)
                               /\ BucketTime(m) <= AskedEnd}
        /\ \A m \in Minutes :
              (BucketTime(m) < AskedStart
                  /\ AskedStart < BucketTime(m + 1)) =>
                  \A i \in DOMAIN stitch.paths : stitch.paths[i] # m

\* C39, witness: a request whose end is before its start; the bucket dated
\* exactly at the later of the two is included, the bucket in whose minute
\* the earlier one falls, off the boundary, holds a manifest and is not.
C39_Witness ==
    /\ stitch.pc = "done"
    /\ stitch.start # None /\ stitch.end # None
    /\ stitch.end < stitch.start
    /\ \E i \in DOMAIN stitch.paths :
          BucketTime(stitch.paths[i]) = stitch.start
    /\ \E m \in Minutes :
          /\ dirs[m].kind = "ok"
          /\ BucketTime(m) < stitch.end /\ stitch.end < BucketTime(m + 1)
          /\ \A i \in DOMAIN stitch.paths : stitch.paths[i] # m

(***************************************************************************)
(* Clip creation (cameras/routes.py: api_create_clip)                      *)
(***************************************************************************)
\* max_minutes = 30
MaxClipMinutes == 30

\* timedelta(minutes=max_minutes), in ms
MaxClipMs == MaxClipMinutes * 60 * 1000

\* total_duration = max(0.1, ...), in ms
MinClipMs == 100

\* Duration of every recorded segment (hls_time 2), in ms
SegmentMs == 2000

\* Start and end times a request's body names, in ms
ClipTimes == {0, 1000, 1050, 4500, MaxClipMs + 1000}

\* Absolute start times of the segments the minute playlists list: none,
\* three from 0 s on, two from 2 s on
SegmentStarts == {<<>>, <<0, 2000, 4000>>, <<2000, 4000>>}

Max(a, b) == IF a > b THEN a ELSE b
Min(a, b) == IF a < b THEN a ELSE b

\* _collect_segments_for_window: the segments overlapping the window, by
\* start time (the playlists list them in that order)
CollectSegments(starts, win_start, win_end) ==
    SelectSeq(starts, LAMBDA x :
        ~(x + SegmentMs <= win_start \/ x >= win_end))

\* end_dt after the cap to max_minutes
CappedEnd(start, end) ==
    IF end - start > MaxClipMs THEN start + MaxClipMs ELSE end

\* offset_in_first = max(0.0, (win_start_ms - first['start_ms']) / 1000.0)
OffsetInFirst(win_start, first_start) == Max(0, win_start - first_start)

\* total_duration = max(0.1, end_dt.timestamp() - start_dt.timestamp())
TotalDuration(start, end) == Max(MinClipMs, end - start)

\* UTC offsets a timestamp of the body may carry: 'Z' and '+01:00', in ms
UtcOffsets == {0, 3600000}

\* datetime.fromisoformat(s.replace('Z','+00:00')).replace(tzinfo=None):
\* the wall-clock reading of the string; its offset is dropped, not applied
ParseNaive(wall, off) == wall

\* The instant a timestamp with an offset names
Instant(wall, off) == wall - off

\* a rejection: the response is an error, nothing follows
Reject(c, why) == [c EXCEPT !.pc = "rejected", !.error = why]

\* the checks of the body and of the camera, the cap, the segment lookup
\* and the trim parameters
ClipPrepare ==
    /\ clip.pc = "start"
    /\ LET start_dt == ParseNaive(creq.start, creq.start_off)
           end_dt0 == ParseNaive(creq.end, creq.end_off)
           end_dt == CappedEnd(start_dt, end_dt0)
           segs == CollectSegments(creq.segs, start_dt, end_dt)
       IN  clip' =
             IF end_dt0 <= start_dt
             THEN Reject(clip, "end must be after start")
             ELSE IF ~creq.camera
             THEN Reject(clip, "camera not found")
             ELSE IF creq.mode # "hls"
             THEN Reject(clip, "not hls")
             ELSE IF segs = <<>>
             THEN [Reject(clip, "no segments") EXCEPT !.looked = TRUE]
             ELSE [clip EXCEPT !.pc = "transcode", !.end_dt = end_dt,
                      !.segs = segs, !.looked = TRUE,
                      !.offset_in_first = OffsetInFirst(start_dt, segs[1]),
                      !.total_duration = TotalDuration(start_dt, end_dt)]
    /\ UNCHANGED <<creq, clips, cfile>>
    /\ UNCHANGED <<supVars, fsVars, webVars, genVars, stVars,
                   snapVars, loopVars, restVars>>

\* subprocess.run(ffmpeg -y ... out_path): it writes the clip, or it fails
\* before it opened its output, or it fails having opened and partly
\* written it; returncode != 0 or no file: the 500 response
ClipTranscode ==
    /\ clip.pc = "transcode"
    /\ \E r \in {"ok", "failed", "failed_midway"} :
        /\ cfile' = CASE r = "ok" -> "clip"
                      [] r = "failed" -> cfile
                      [] OTHER -> "partial"
        /\ clip' = IF r = "ok" THEN [clip EXCEPT !.pc = "insert"]
                   ELSE Reject(clip, "ffmpeg failed")
    /\ UNCHANGED <<creq, clips>>
    /\ UNCHANGED <<supVars, fsVars, webVars, genVars, stVars,
                   snapVars, loopVars, restVars>>

\* db.clips.insert_one(doc) and the 201 response; an exception: the 500
\* response of the outer except
ClipInsert ==
    /\ clip.pc = "insert"
    /\ \E ok \in BOOLEAN :
        IF ok
        THEN /\ clips' = Append(clips, [duration_s |-> clip.total_duration,
                                        start |-> creq.start,
                                        end |-> clip.end_dt])
             /\ clip' = [clip EXCEPT !.pc = "created"]
        ELSE /\ clip' = Reject(clip, "clip creation error")
             /\ UNCHANGED clips
    /\ UNCHANGED <<creq, cfile>>
    /\ UNCHANGED <<supVars, fsVars, webVars, genVars, stVars,
                   snapVars, loopVars, restVars>>

\* The clips collection and the file at out_path before the request: none,
\* or a clip of the same name made earlier
ClipStoreBefore(pre) ==
    IF pre THEN <<[duration_s |-> SegmentMs, start |-> 0, end |-> SegmentMs]>>
    ELSE <<>>
ClipFileBefore(pre) == IF pre THEN "older clip" ELSE "absent"

InitClip ==
    /\ creq \in [start : ClipTimes, end : ClipTimes,
                 start_off : UtcOffsets, end_off : UtcOffsets,
                 camera : BOOLEAN, mode : {"hls", "jpeg"},
                 segs : SegmentStarts, pre : BOOLEAN]
    /\ clip = [pc |-> "start", error |-> "", end_dt |-> 0, segs |-> <<>>,
               looked |-> FALSE,
               offset_in_first |-> 0, total_duration |-> 0]
    /\ clips = ClipStoreBefore(creq.pre)
    /\ cfile = ClipFileBefore(creq.pre)
    /\ db = [c \in Cams |-> Absent]
    /\ SupParked
    /\ FsParked
    /\ WebParked
    /\ GenParked
    /\ StParked
    /\ SnapParked
    /\ LoopParked
    /\ RestParked

NextClip ==
    \/ ClipPrepare
    \/ ClipTranscode
    \/ ClipInsert

SpecClip == InitClip /\ [][NextClip]_vars

(***************************************************************************)
(* Properties of clip creation                                             *)
(***************************************************************************)
\* C19: the trim offset handed to the transcode is the window's start less
\* the first kept segment's start, at least 0, and the duration is the
\* window's length, at most 30 minutes.
C19_TrimOffsetAndDuration ==
    clip.pc = "transcode" =>
        /\ clip.offset_in_first = Max(0, creq.start - clip.segs[1])
        /\ clip.total_duration = Min(creq.end - creq.start, MaxClipMs)

\* C20: a request rejected because its end is not after its start, its
\* camera is not recorded as segments, no segment overlaps its window or
\* the transcode failed leaves the clips collection and the file at its
\* out_path as they were before it.
C20_RejectionPersistsNothing ==
    (clip.pc = "rejected"
        /\ clip.error \in {"end must be after start", "not hls",
                           "no segments", "ffmpeg failed"}) =>
        /\ clips = ClipStoreBefore(creq.pre)
        /\ cfile = ClipFileBefore(creq.pre)

\* The footage the kept segments supply from the trim offset onward, at
\* most the requested window (after its cap)
RealisedDuration ==
    Min(Len(clip.segs) * SegmentMs - clip.offset_in_first,
        clip.end_dt - creq.start)

\* C21: the duration stored in the clip's record is the realised duration
\* of the clip: the footage the kept segments supply from the trim offset
\* onward, bounded by the requested window, also when the kept segments do
\* not cover the whole window.
C21_StoredDurationIsRealised ==
    clip.pc = "created" =>
        clips[Len(clips)].duration_s = RealisedDuration

\* C22: a request whose end time is at or before its start time is
\* rejected as such, before any segment lookup or transcode, whatever
\* pair of parseable timestamps it carries.
C22_EndNotAfterStartRejectedFirst ==
    (clip.pc # "start"
        /\ Instant(creq.end, creq.end_off)
              <= Instant(creq.start, creq.start_off)) =>
        /\ clip.pc = "rejected"
        /\ clip.error = "end must be after start"
        /\ ~clip.looked
        /\ cfile = ClipFileBefore(creq.pre)

\* C37: the footage the trim parameters select, from the first kept
\* segment's start plus the offset and of the computed duration, lies
\* inside the requested window, also when the first kept segment starts
\* after the window's start and the offset is 0.
C37_SelectedSpanInsideWindow ==
    clip.pc = "transcode" =>
        /\ creq.start <= clip.segs[1] + clip.offset_in_first
        /\ clip.segs[1] + clip.offset_in_first + clip.total_duration
              <= creq.end

(***************************************************************************)
(* The segment lookup of a clip (cameras/routes.py:                        *)
(* _iter_hls_minutes_between, _collect_segments_for_window), as a function *)
(* of the manifests on disk and of the window, times in ticks              *)
(***************************************************************************)
\* The camera's minute directories are those of minutes 0..MaxCollMinute
MaxCollMinute == 3
CollMinutes == 0..MaxCollMinute

\* The lengths of the windows asked for, in ticks
MaxWindow == 4

\* What a minute directory m may hold: no index.m3u8, or one listing a
\* segment: without #EXT-X-PROGRAM-DATE-TIME (start None), or dated at the
\* minute's start or later, with the duration its #EXTINF gives (0 without
\* one: dur_s = last_dur or 0.0)
ManifestChoices(m) ==
    {<<>>,
     <<[start |-> None, dur |-> TicksPerMinute]>>,
     <<[start |-> BucketTime(m), dur |-> TicksPerMinute]>>,
     <<[start |-> BucketTime(m), dur |-> 0]>>,
     <<[start |-> BucketTime(m) + TicksPerMinute + 1, dur |-> 1]>>}

\* _iter_hls_minutes_between: the directories in sorted order, without
\* those dated before start_dt or after end_dt and those without index.m3u8
RECURSIVE IterMinutes(_, _, _, _)
IterMinutes(man, m, start_dt, end_dt) ==
    IF m > MaxCollMinute THEN <<>>
    ELSE (IF InRange(BucketTime(m), start_dt, end_dt) /\ man[m] # <<>>
          THEN <<m>> ELSE <<>>)
         \o IterMinutes(man, m + 1, start_dt, end_dt)

\* the pass over one playlist: a segment is appended if start_ms is not
\* None, with its path (here its directory and its place in the playlist)
ParsePlaylist(man, m) ==
    LET entries == [i \in DOMAIN man[m] |->
                      [bucket |-> m, at |-> i,
                       start |-> man[m][i].start, dur |-> man[m][i].dur]]
    IN  SelectSeq(entries, LAMBDA e : e.start # None)

\* segs after the loop over the directories
RECURSIVE ParseAll(_, _)
ParseAll(man, ms) ==
    IF ms = <<>> THEN <<>>
    ELSE ParsePlaylist(man, Head(ms)) \o ParseAll(man, Tail(ms))

\* segs.sort(key=lambda s: s['start_ms']): ascending and stable
RECURSIVE SortByStart(_)
SortByStart(q) ==
    IF q = <<>> THEN <<>>
    ELSE LET rest == SortByStart(Tail(q))
             before == SelectSeq(rest, LAMBDA e : e.start < Head(q).start)
             after == SelectSeq(rest, LAMBDA e : e.start >= Head(q).start)
         IN  before \o <<Head(q)>> \o after

\* an overlap test that keeps a segment touching the window from outside
OverlapsClosed(e, win_start, win_end) ==
    ~(e.start + e.dur < win_start \/ e.start > win_end)

\* not (s_end <= win_start or s_start >= win_end)
Overlaps(e, win_start, win_end) ==
    ~(e.start + e.dur <= win_start \/ e.start >= win_end)

\* _collect_segments_for_window(cam_id, start_dt, end_dt)
CollectForWindow(man, start_dt, end_dt) ==
    LET ms == IterMinutes(man, 0, start_dt - TicksPerMinute,
                          end_dt + TicksPerMinute)
        segs == SortByStart(ParseAll(man, ms))
    IN  SelectSeq(segs, LAMBDA e : Overlaps(e, start_dt, end_dt))

\* segs = _collect_segments_for_window(id, start_dt, end_dt)
CollCall ==
    /\ coll.pc = "call"
    /\ coll' = [coll EXCEPT !.pc = "done",
                   !.out = CollectForWindow(coll.man, coll.start, coll.end)]
    /\ UNCHANGED <<cstore, frames, jtree>>
    /\ UNCHANGED <<supVars, fsVars, webVars, genVars, stVars, clipVars,
                   snapVars, loopVars>>

InitColl ==
    /\ \E start \in 0..BucketTime(MaxCollMinute + 1), len \in 1..MaxWindow :
        \E man \in [CollMinutes -> UNION {ManifestChoices(m) : m \in CollMinutes}] :
          /\ \A m \in CollMinutes : man[m] \in ManifestChoices(m)
          /\ coll = [pc |-> "call", man |-> man, start |-> start,
                     end |-> start + len, out |-> <<>>]
    /\ db = [c \in Cams |-> Absent]
    /\ SupParked
    /\ FsParked
    /\ WebParked
    /\ GenParked
    /\ StParked
    /\ ClipParked
    /\ SnapParked
    /\ LoopParked
    /\ StoreParked /\ FramesParked /\ TreeParked

NextColl == CollCall

SpecColl == InitColl /\ [][NextColl]_vars

\* The segments of the playlists on disk, each with its directory
ListedSegments ==
    {[bucket |-> m, at |-> i,
      start |-> coll.man[m][i].start, dur |-> coll.man[m][i].dur] :
        <<m, i>> \in {p \in CollMinutes \X (1..1) : p[2] \in DOMAIN coll.man[p[1]]}}

\* C33: the list handed to the transcode holds exactly the segments with a
\* known start, listed in directories dated from a minute before the start
\* to a minute after the end, with start + duration > window start and
\* start < window end, each once, in ascending order of start.
C33_KeptSegmentsExactlyOverlapping ==
    coll.pc = "done" =>
        /\ {coll.out[i] : i \in DOMAIN coll.out} =
              {e \in ListedSegments :
                  /\ e.start # None
                  /\ coll.start - TicksPerMinute <= BucketTime(e.bucket)
                  /\ BucketTime(e.bucket) <= coll.end + TicksPerMinute
                  /\ e.start + e.dur > coll.start
                  /\ e.start < coll.end}
        /\ \A i, j \in DOMAIN coll.out :
              i < j => /\ coll.out[i].start <= coll.out[j].start
                       /\ coll.out[i] # coll.out[j]

\* C33, witness: two segments are kept, the later directory's first; one
\* ending exactly at the window's start and one starting exactly at its
\* end, in directories of the range, are left out.
C33_Witness ==
    /\ coll.pc = "done"
    /\ Len(coll.out) = 2
    /\ coll.out[1].bucket > coll.out[2].bucket
    /\ \E e \in ListedSegments :
          /\ e.start # None /\ e.dur > 0 /\ e.start + e.dur = coll.start
          /\ BucketTime(e.bucket) >= coll.start - TicksPerMinute
    /\ \E e \in ListedSegments :
          /\ e.start = coll.end
          /\ BucketTime(e.bucket) <= coll.end + TicksPerMinute

(***************************************************************************)
(* The clips of one camera over several requests (cameras/routes.py:       *)
(* api_create_clip from its output path on, api_delete_clip): the clips    *)
(* collection and the files under the camera's clips/ tree                 *)
(***************************************************************************)
\* At most MaxClips create requests get as far as the transcode
MaxClips == 3

\* out_path = <clips dir of the start date>/<sanitised name or
\* start__end>.mp4: the paths the requests' names and dates lead to
ClipPaths == {"clips/2024/01/01/a.mp4", "clips/2024/01/01/b.mp4"}

\* ffmpeg -y ... out_path, returncode 0 and the file there: the file now
\* holds the output of request n, whatever it held
WriteClip(files, path, n) ==
    [q \in DOMAIN files \cup {path} |-> IF q = path THEN n ELSE files[q]]

\* os.remove(abs_path)
RemoveClip(files, path) == [q \in DOMAIN files \ {path} |-> files[q]]

\* POST /api/cameras/<id>/clips from the transcode on: ffmpeg fails (the
\* 500 response), or it writes out_path and db.clips.insert_one(doc) adds
\* the record with path_rel, or insert_one raises (the 500 response of the
\* outer except)
StoreCreate(path) ==
    /\ cstore.made < MaxClips
    /\ \E ffmpeg \in BOOLEAN, insert \in BOOLEAN :
        LET n == cstore.made + 1
        IN  cstore' =
              IF ~ffmpeg THEN [cstore EXCEPT !.made = n]
              ELSE [made |-> n,
                    files |-> WriteClip(cstore.files, path, n),
                    recs |-> IF insert
                             THEN [i \in DOMAIN cstore.recs \cup {n} |->
                                     IF i = n THEN [path_rel |-> path]
                                     ELSE cstore.recs[i]]
                             ELSE cstore.recs]
    /\ UNCHANGED <<coll, frames, jtree>>
    /\ UNCHANGED <<supVars, fsVars, webVars, genVars, stVars, clipVars,
                   snapVars, loopVars>>

\* DELETE /api/cameras/<id>/clips/<clip_id> by an admin, the record found:
\* os.remove(abs_path) if the file is there, its exception passed over;
\* db.clips.delete_one, its exception passed over; 'deleted' either way
StoreDelete(i) ==
    /\ i \in DOMAIN cstore.recs
    /\ \E removed \in Outcomes(cstore.recs[i].path_rel \in DOMAIN cstore.files),
          deleted \in BOOLEAN :
        cstore' =
          [cstore EXCEPT
             !.files = IF removed
                          /\ cstore.recs[i].path_rel \in DOMAIN cstore.files
                       THEN RemoveClip(@, cstore.recs[i].path_rel) ELSE @,
             !.recs = IF deleted
                      THEN [j \in DOMAIN @ \ {i} |-> @[j]] ELSE @]
    /\ UNCHANGED <<coll, frames, jtree>>
    /\ UNCHANGED <<supVars, fsVars, webVars, genVars, stVars, clipVars,
                   snapVars, loopVars>>

InitStore ==
    /\ cstore = [made |-> 0, files |-> <<>>, recs |-> <<>>]
    /\ db = [c \in Cams |-> Absent]
    /\ SupParked
    /\ FsParked
    /\ WebParked
    /\ GenParked
    /\ StParked
    /\ ClipParked
    /\ SnapParked
    /\ LoopParked
    /\ CollParked /\ FramesParked /\ TreeParked

NextStore ==
    \/ \E path \in ClipPaths : StoreCreate(path)
    \/ \E i \in 1..MaxClips : StoreDelete(i)

SpecStore == InitStore /\ [][NextStore]_vars

\* C36: after any sequence of create and delete requests every record of
\* the clips collection names a file that exists, and no two records name
\* the same file.
C36_RecordsOwnExistingFiles ==
    /\ \A i \in DOMAIN cstore.recs :
          cstore.recs[i].path_rel \in DOMAIN cstore.files
    /\ \A i, j \in DOMAIN cstore.recs :
          i # j => cstore.recs[i].path_rel # cstore.recs[j].path_rel

(***************************************************************************)
(* A snapshot recorder thread (CameraRecorder) on its own: its run loop,   *)
(* its capture sessions, its clock and the stop() another thread calls     *)
(***************************************************************************)
\* frame_interval = 1.0 / self.fps, in ticks of 0.1 s (fps = 5)
FramePeriod == 2

\* The clock runs from FramePeriod to MaxSnapTicks; at most MaxCaps
\* capture sessions are created
MaxSnapTicks == 6
MaxCaps == 2

\* self._cap is None / no write yet
NoCap == 0
NoWrite == 0 - 1

\* cap.release()
ReleaseCap(cs, c) == IF c = NoCap THEN cs ELSE [cs EXCEPT ![c] = "released"]

\* _open: cap = cv2.VideoCapture(self.rtsp_url, cv2.CAP_FFMPEG), at the
\* start of run() and in the loop when self._cap is None
SnapOpenBegin ==
    /\ snap.pc \in {"start", "reopen"}
    /\ Len(scaps) < MaxCaps
    /\ scaps' = Append(scaps, "opening")
    /\ snap' = [snap EXCEPT !.pc = "opening", !.local = Len(scaps) + 1,
                            !.from = snap.pc]
    /\ UNCHANGED <<sclock, shist>>
    /\ UNCHANGED <<supVars, fsVars, webVars, genVars, stVars, clipVars,
                   loopVars, restVars>>

\* _open: one turn of while not cap.isOpened(): the session is open and
\* returned, whatever _stop says; or _stop is set or the timeout is over,
\* the session is released and None returned; or sleep(0.2). Then
\* self._cap = the result, and in the loop sleep(1.0); continue on None.
SnapOpenPoll ==
    /\ snap.pc = "opening"
    /\ \E opened, timeout \in BOOLEAN :
        IF opened
        THEN /\ scaps' = [scaps EXCEPT ![snap.local] =
                            IF @ = "opening" THEN "open" ELSE @]
             /\ snap' = [snap EXCEPT !.cap = snap.local, !.local = NoCap,
                            !.pc = IF snap.from = "start" THEN "test"
                                                          ELSE "read"]
        ELSE IF snap.stop \/ timeout
        THEN /\ scaps' = ReleaseCap(scaps, snap.local)
             /\ snap' = [snap EXCEPT !.cap = NoCap, !.local = NoCap,
                                     !.pc = "test"]
        ELSE UNCHANGED <<snap, scaps>>
    /\ UNCHANGED <<sclock, shist>>
    /\ UNCHANGED <<supVars, fsVars, webVars, genVars, stVars, clipVars,
                   loopVars, restVars>>

\* while not self._stop.is_set(): the thread returns when it is set;
\* now = time.time(); the turn goes on when now - last >= frame_interval
\* (sleep(0.002) and again otherwise): last = now, a reopen without _cap
SnapTest ==
    /\ snap.pc = "test"
    /\ IF snap.stop
       THEN snap' = [snap EXCEPT !.pc = "exited"]
       ELSE /\ sclock - snap.last >= FramePeriod
            /\ snap' = [snap EXCEPT !.last = sclock,
                           !.pc = IF snap.cap = NoCap THEN "reopen"
                                                      ELSE "read"]
    /\ UNCHANGED <<scaps, sclock, shist>>
    /\ UNCHANGED <<supVars, fsVars, webVars, genVars, stVars, clipVars,
                   loopVars, restVars>>

\* ok, frame = self._cap.read(), a released session giving no frame: on
\* failure release, self._cap = None, sleep(0.25), continue; then imencode,
\* continue when it fails; then ts = datetime.utcnow()
SnapRead ==
    /\ snap.pc = "read"
    /\ \E r \in {"ok", "no frame", "not encoded"} :
        IF r = "no frame" \/ scaps[snap.cap] = "released"
        THEN /\ scaps' = ReleaseCap(scaps, snap.cap)
             /\ snap' = [snap EXCEPT !.cap = NoCap, !.pc = "test"]
             /\ shist' = [shist EXCEPT !.readFailed = TRUE]
        ELSE /\ snap' = [snap EXCEPT !.pc = IF r = "ok" THEN "mkdir"
                                                        ELSE "test"]
             /\ UNCHANGED <<scaps, shist>>
    /\ UNCHANGED sclock
    /\ UNCHANGED <<supVars, fsVars, webVars, genVars, stVars, clipVars,
                   loopVars, restVars>>

\* _ensure_dir(subdir): os.makedirs, outside every try: its OSError ends
\* run() and the thread
SnapMkdir ==
    /\ snap.pc = "mkdir"
    /\ \E ok \in BOOLEAN :
        /\ snap' = [snap EXCEPT !.pc = IF ok THEN "write" ELSE "crashed"]
        /\ shist' = IF ok THEN shist
                    ELSE [shist EXCEPT !.persistFailed = TRUE]
    /\ UNCHANGED <<scaps, sclock>>
    /\ UNCHANGED <<supVars, fsVars, webVars, genVars, stVars, clipVars,
                   loopVars, restVars>>

\* with open(fpath, 'wb') as f: f.write(...); except: sleep(0.1), the
\* frame is skipped
SnapWrite ==
    /\ snap.pc = "write"
    /\ \E ok \in BOOLEAN :
        shist' = IF ok
                 THEN [shist EXCEPT !.prevWrite = shist.lastWrite,
                                    !.lastWrite = sclock]
                 ELSE [shist EXCEPT !.persistFailed = TRUE]
    /\ snap' = [snap EXCEPT !.pc = "test"]
    /\ UNCHANGED <<scaps, sclock>>
    /\ UNCHANGED <<supVars, fsVars, webVars, genVars, stVars, clipVars,
                   loopVars, restVars>>

\* CameraRecorder.stop(), called by the supervisor or by the manager's
\* stop(): self._stop.set()
SnapStopSet ==
    /\ snap.stopper = "idle"
    /\ snap.pc # "exited"
    /\ snap' = [snap EXCEPT !.stop = TRUE, !.stopper = "set"]
    /\ UNCHANGED <<scaps, sclock, shist>>
    /\ UNCHANGED <<supVars, fsVars, webVars, genVars, stVars, clipVars,
                   loopVars, restVars>>

\* CameraRecorder.stop(): if self._cap is not None: self._cap.release()
SnapStopRelease ==
    /\ snap.stopper = "set"
    /\ scaps' = ReleaseCap(scaps, snap.cap)
    /\ snap' = [snap EXCEPT !.stopper = "done"]
    /\ UNCHANGED <<sclock, shist>>
    /\ UNCHANGED <<supVars, fsVars, webVars, genVars, stVars, clipVars,
                   loopVars, restVars>>

\* time passes: in a sleep, in a read, an encode or a write
SnapTick ==
    /\ sclock < MaxSnapTicks
    /\ snap.pc \notin {"exited", "crashed"}
    /\ sclock' = sclock + 1
    /\ UNCHANGED <<snap, scaps, shist>>
    /\ UNCHANGED <<supVars, fsVars, webVars, genVars, stVars, clipVars,
                   loopVars, restVars>>

InitSnap ==
    /\ snap = [pc |-> "start", stop |-> FALSE, stopper |-> "idle",
               cap |-> NoCap, local |-> NoCap, from |-> "start", last |-> 0]
    /\ scaps = <<>>
    /\ sclock = FramePeriod
    /\ shist = [prevWrite |-> NoWrite, lastWrite |-> NoWrite,
                readFailed |-> FALSE, persistFailed |-> FALSE]
    /\ db = [c \in Cams |-> Absent]
    /\ SupParked
    /\ FsParked
    /\ WebParked
    /\ GenParked
    /\ StParked
    /\ ClipParked
    /\ LoopParked
    /\ RestParked

NextSnap ==
    \/ SnapOpenBegin
    \/ SnapOpenPoll
    \/ SnapTest
    \/ SnapRead
    \/ SnapMkdir
    \/ SnapWrite
    \/ SnapStopSet
    \/ SnapStopRelease
    \/ SnapTick

SpecSnap == InitSnap /\ [][NextSnap]_vars

(***************************************************************************)
(* Properties of the snapshot recorder                                     *)
(***************************************************************************)
\* C23: with no read failure, two consecutive successful frame writes are
\* never less than the frame period apart, whatever the read, encode and
\* write take.
C23_WritesAtLeastPeriodApart ==
    (~shist.readFailed /\ shist.prevWrite # NoWrite) =>
        shist.lastWrite - shist.prevWrite >= FramePeriod

\* C26: a worker thread that has exited after a stop signal has released
\* the resource it owned: every capture session the snapshot worker
\* created is released, wherever in its loop the signal arrived.
C26_ExitedWorkerReleased ==
    (snap.pc = "exited" /\ snap.stop /\ snap.stopper = "done") =>
        \A c \in DOMAIN scaps : scaps[c] = "released"

\* C29: a failure to persist a frame, in creating the minute directory or
\* in writing the file, drops that frame only: the thread goes on to the
\* next turn of its loop.
C29_PersistFailureDropsFrame ==
    [][(snap.pc \in {"mkdir", "write"} /\ snap'.pc # snap.pc) =>
            snap'.pc \in {"write", "test"}]_vars

(***************************************************************************)
(* The frame files of one minute bucket (CameraRecorder.run from           *)
(* ts = datetime.utcnow() to the write), the clock in milliseconds         *)
(***************************************************************************)
\* _now_ts_ms() % 1000 and '%S': milliseconds of a second
MsPerSecond == 1000

\* frame_interval = 1.0 / self.fps, fps = 5, in ms
FrameIntervalMs == 200

\* The clock runs to MaxFrameMs after the minute's start; at most
\* MaxFrames frames are written
MaxFrameMs == 1300
MaxFrames == 3

\* What the clock may advance by, in ms: between two frames, and between
\* the two readings of the clock that name one frame
ClockSteps == {200, 799}
NamingSteps == {2}

\* ts.strftime('%S') of a clock reading within the minute
SecondsOf(t) == t \div MsPerSecond

\* f"{ts.strftime('%S')}_{_now_ts_ms() % 1000:03d}.jpg": the seconds of
\* ts, two digits, and the milliseconds of a second reading of the clock,
\* three digits
FrameName(ts, t) == <<SecondsOf(ts), t % MsPerSecond>>

\* Both parts are zero-padded to a fixed width, so the names compare as
\* strings the way the pairs of numbers do
NameBefore(a, b) == a[1] < b[1] \/ (a[1] = b[1] /\ a[2] < b[2])

\* now = time.time(); now - last >= frame_interval; last = now; the frame
\* is read and encoded; ts = datetime.utcnow()
FrameStamp ==
    /\ frames.pc = "wait"
    /\ Len(frames.names) < MaxFrames
    /\ frames.last = NoWrite \/ frames.clock - frames.last >= FrameIntervalMs
    /\ frames' = [frames EXCEPT !.pc = "stamped", !.last = frames.clock,
                                !.ts = frames.clock]
    /\ UNCHANGED <<coll, cstore, jtree>>
    /\ UNCHANGED <<supVars, fsVars, webVars, genVars, stVars, clipVars,
                   snapVars, loopVars>>

\* _ensure_dir(subdir); fname = ...; open(fpath, 'wb'), f.write(...)
FrameWrite ==
    /\ frames.pc = "stamped"
    /\ frames' = [frames EXCEPT !.pc = "wait",
                     !.names = Append(@, FrameName(frames.ts, frames.clock))]
    /\ UNCHANGED <<coll, cstore, jtree>>
    /\ UNCHANGED <<supVars, fsVars, webVars, genVars, stVars, clipVars,
                   snapVars, loopVars>>

\* time passes: between two frames, and once between the two readings of
\* the clock that name a frame
FrameTick ==
    /\ \E d \in IF frames.pc = "stamped" THEN NamingSteps ELSE ClockSteps :
        /\ frames.clock + d <= MaxFrameMs
        /\ frames.pc = "stamped" => frames.clock = frames.ts
        /\ frames' = [frames EXCEPT !.clock = @ + d]
    /\ UNCHANGED <<coll, cstore, jtree>>
    /\ UNCHANGED <<supVars, fsVars, webVars, genVars, stVars, clipVars,
                   snapVars, loopVars>>

InitFrames ==
    /\ frames = [pc |-> "wait", clock |-> 0, last |-> NoWrite, ts |-> 0,
                 names |-> <<>>]
    /\ db = [c \in Cams |-> Absent]
    /\ SupParked
    /\ FsParked
    /\ WebParked
    /\ GenParked
    /\ StParked
    /\ ClipParked
    /\ SnapParked
    /\ LoopParked
    /\ CollParked /\ StoreParked /\ TreeParked

NextFrames ==
    \/ FrameStamp
    \/ FrameWrite
    \/ FrameTick

SpecFrames == InitFrames /\ [][NextFrames]_vars

\* C38: within the bucket, a frame written later has the lexically later
\* name.
C38_NameOrderIsWriteOrder ==
    \A i, j \in DOMAIN frames.names :
        i < j => NameBefore(frames.names[i], frames.names[j])

(***************************************************************************)
(* A retention sweep over the whole recordings tree                        *)
(* (RecorderManager._run_retention_cleanup): the camera directories, their *)
(* minute buckets and their clips/ trees (routes.py: _safe_clip_dir)       *)
(***************************************************************************)
\* cutoff = now - timedelta(hours=rh_int), in minutes after 10:00; every
\* file and directory was last modified before it
TreeCutoff == 30
TreeMtime == 0

\* What a camera's directory may hold: a frame in the minute bucket 10:00,
\* one in the bucket 10:59, a clip made by api_create_clip
TreeItems(c) ==
    {<<c, "2024", "01", "01", "10", "00", "05_123.jpg">>,
     <<c, "2024", "01", "01", "10", "59", "05_123.jpg">>,
     <<c, "clips", "2024", "01", "01", "a.mp4">>}

\* The tree holding the files of a set of paths: os.makedirs made the
\* directories above each
TreeOf(files) ==
    {[path |-> f, kind |-> "file"] : f \in files}
    \cup {[path |-> SubSeq(f, 1, k), kind |-> "dir"] :
             <<f, k>> \in {q \in files \X (1..6) : q[2] < Len(q[1])}}

\* a test that takes every entry of a listing for a directory
PathExists(tree, p) == \E n \in tree : n.path = p

\* os.path.isdir(p)
IsDirPath(tree, p) == [path |-> p, kind |-> "dir"] \in tree

\* The entries mip the five nested os.listdir loops under cam_root reach:
\* cam_root and every level above mip is a directory, and so is mip
MinuteLevel(tree, c) ==
    {n.path : n \in {x \in tree :
        /\ Len(x.path) = 6
        /\ x.path[1] = c
        /\ \A k \in 1..6 : IsDirPath(tree, SubSeq(x.path, 1, k))}}

\* int(y), int(m), int(d), int(h), int(mi) all succeed
NumericNames == {"2024", "01", "10", "00", "59"}
Numeric(p) == \A k \in 2..6 : p[k] \in NumericNames

\* dt = datetime(int(y), ..., int(mi)), or the directory's mtime when that
\* raises; in minutes after 10:00
PathTime(p) ==
    IF Numeric(p) THEN (IF p[6] = "59" THEN 59 ELSE 0) ELSE TreeMtime

\* shutil.rmtree(mip, ignore_errors=True)
Rmtree(tree, p) ==
    {n \in tree : ~(Len(n.path) >= Len(p)
                       /\ SubSeq(n.path, 1, Len(p)) = p)}

RECURSIVE RmtreeAll(_, _)
RmtreeAll(tree, ps) ==
    IF ps = {} THEN tree
    ELSE LET p == CHOOSE q \in ps : TRUE
         IN  RmtreeAll(Rmtree(tree, p), ps \ {p})

\* cams = list(self.db.cameras.find()), [] when it raises
TreeFetch ==
    /\ jtree.pc = "fetch"
    /\ \E ok \in BOOLEAN :
        LET cs == IF ok THEN SelectSeq(CamOrder, LAMBDA c : c \in jtree.docs)
                  ELSE <<>>
        IN  jtree' = [jtree EXCEPT !.pc = "walk", !.todo = cs,
                         !.list = {cs[i] : i \in DOMAIN cs}]
    /\ UNCHANGED <<coll, cstore, frames>>
    /\ UNCHANGED <<supVars, fsVars, webVars, genVars, stVars, clipVars,
                   snapVars, loopVars>>

\* for c in cams: the walk of cam_root, every mip with dt < cutoff removed
TreeCam ==
    /\ jtree.pc = "walk"
    /\ jtree.todo # <<>>
    /\ LET c == Head(jtree.todo)
           old == {p \in MinuteLevel(jtree.tree, c) : PathTime(p) < TreeCutoff}
       IN  jtree' = [jtree EXCEPT !.todo = Tail(@),
                        !.tree = RmtreeAll(@, old)]
    /\ UNCHANGED <<coll, cstore, frames>>
    /\ UNCHANGED <<supVars, fsVars, webVars, genVars, stVars, clipVars,
                   snapVars, loopVars>>

\* the list is exhausted
TreeEnd ==
    /\ jtree.pc = "walk"
    /\ jtree.todo = <<>>
    /\ jtree' = [jtree EXCEPT !.pc = "done"]
    /\ UNCHANGED <<coll, cstore, frames>>
    /\ UNCHANGED <<supVars, fsVars, webVars, genVars, stVars, clipVars,
                   snapVars, loopVars>>

InitTree ==
    /\ \E docs \in SUBSET Cams :
        \E held \in [Cams -> SUBSET UNION {TreeItems(c) : c \in Cams}] :
          /\ \A c \in Cams : held[c] \subseteq TreeItems(c)
          /\ LET t == TreeOf(UNION {held[c] : c \in Cams})
             IN  jtree = [pc |-> "fetch", docs |-> docs, tree0 |-> t,
                          tree |-> t, todo |-> <<>>, list |-> {}]
    /\ db = [c \in Cams |-> Absent]
    /\ SupParked
    /\ FsParked
    /\ WebParked
    /\ GenParked
    /\ StParked
    /\ ClipParked
    /\ SnapParked
    /\ LoopParked
    /\ CollParked /\ StoreParked /\ FramesParked

NextTree ==
    \/ TreeFetch
    \/ TreeCam
    \/ TreeEnd

SpecTree == InitTree /\ [][NextTree]_vars

\* C40: whatever a sweep has deleted is a minute-bucket directory, five
\* levels below the directory of a camera of the list the sweep read, or
\* lies in one; nothing under a clips/ directory and nothing of a camera
\* that is not in the list is deleted.
C40_SweepDeletesOnlyListedBuckets ==
    \A n \in jtree.tree0 \ jtree.tree :
        /\ n.path[1] \in jtree.list
        /\ Len(n.path) >= 6
        /\ IsDirPath(jtree.tree0, SubSeq(n.path, 1, 6))
        /\ n.path[2] # "clips"

\* C40, witness: a sweep is over that removed the bucket 10:00 of a camera
\* of its list and left that camera's clip, and left the bucket 10:00 of a
\* camera that is not in its list.
C40_Witness ==
    /\ jtree.pc = "done"
    /\ \E c \in jtree.list :
          /\ PathExists(jtree.tree0, <<c, "2024", "01", "01", "10", "00">>)
          /\ ~PathExists(jtree.tree, <<c, "2024", "01", "01", "10", "00">>)
          /\ PathExists(jtree.tree, <<c, "clips", "2024", "01", "01", "a.mp4">>)
    /\ \E c \in Cams \ jtree.list :
          PathExists(jtree.tree, <<c, "2024", "01", "01", "10", "00">>)

(***************************************************************************)
(* The two loops of the RecorderManager, _supervise and _janitor_loop,     *)
(* and the global stop signal: their tests of _ctl_stop and their sleeps   *)
(***************************************************************************)
\* The threads that run a loop
LoopThreads == {"_supervise", "_janitor_loop"}

\* for _ in range(10) / for _ in range(300): the slices of the sleep
SupSlices == 10
JanSlices == 300
Slices(t) == IF t = "_supervise" THEN SupSlices ELSE JanSlices

\* a sleep that does not look at the signal
SliceSleepsOn(stop) == FALSE

\* if self._ctl_stop.is_set(): break
SliceBreaks(stop) == stop

\* while not self._ctl_stop.is_set(): the loop's body is entered, or the
\* loop ends and the thread with it
LoopTest(t) ==
    /\ loops.th[t].pc = "test"
    /\ loops' = [loops EXCEPT !.th[t].pc =
                    IF loops.stop THEN "exited" ELSE "body"]
    /\ UNCHANGED <<supVars, fsVars, webVars, genVars, stVars, clipVars,
                   snapVars, restVars>>

\* the body: a reconciliation pass, a retention sweep. It returns, or an
\* exception nothing in it catches (is_alive's TypeError in the pass, the
\* cutoff's OverflowError or a listdir's OSError in the sweep) ends the
\* thread
LoopBody(t) ==
    /\ loops.th[t].pc = "body"
    /\ \E ok \in BOOLEAN :
        loops' = IF ok
                 THEN [loops EXCEPT !.th[t].pc = "slice",
                                    !.th[t].left = Slices(t)]
                 ELSE [loops EXCEPT !.th[t].pc = "crashed"]
    /\ UNCHANGED <<supVars, fsVars, webVars, genVars, stVars, clipVars,
                   snapVars, restVars>>

\* for _ in range(n): if self._ctl_stop.is_set(): break; otherwise
\* time.sleep(1.0) begins; the for loop over, back to the while test
LoopSlice(t) ==
    /\ loops.th[t].pc = "slice"
    /\ loops' =
         IF loops.th[t].left = 0
         THEN [loops EXCEPT !.th[t].pc = "test"]
         ELSE IF SliceBreaks(loops.stop)
         THEN [loops EXCEPT !.th[t].pc = "test", !.th[t].cut = TRUE]
         ELSE [loops EXCEPT !.th[t].pc = "nap",
                            !.th[t].left = @ - 1,
                            !.late = @ \/ loops.stop]
    /\ UNCHANGED <<supVars, fsVars, webVars, genVars, stVars, clipVars,
                   snapVars, restVars>>

\* time.sleep(1.0) returns
LoopWake(t) ==
    /\ loops.th[t].pc = "nap"
    /\ loops' = [loops EXCEPT !.th[t].pc = "slice"]
    /\ UNCHANGED <<supVars, fsVars, webVars, genVars, stVars, clipVars,
                   snapVars, restVars>>

\* RecorderManager.stop(): self._ctl_stop.set()
LoopStop ==
    /\ ~loops.stop
    /\ loops' = [loops EXCEPT !.stop = TRUE]
    /\ UNCHANGED <<supVars, fsVars, webVars, genVars, stVars, clipVars,
                   snapVars, restVars>>

\* RecorderManager.start(): the signal is cleared, both threads start
InitLoops ==
    /\ loops = [stop |-> FALSE, late |-> FALSE,
                th |-> [t \in LoopThreads |->
                          [pc |-> "test", left |-> 0, cut |-> FALSE]]]
    /\ db = [c \in Cams |-> Absent]
    /\ SupParked
    /\ FsParked
    /\ WebParked
    /\ GenParked
    /\ StParked
    /\ ClipParked
    /\ SnapParked
    /\ RestParked

\* the steps of one of the two threads
LoopStep(t) ==
    \/ LoopTest(t)
    \/ LoopBody(t)
    \/ LoopSlice(t)
    \/ LoopWake(t)

NextLoops ==
    \/ \E t \in LoopThreads : LoopTest(t)
    \/ \E t \in LoopThreads : LoopBody(t)
    \/ \E t \in LoopThreads : LoopSlice(t)
    \/ \E t \in LoopThreads : LoopWake(t)
    \/ LoopStop

\* A thread that can take a step is scheduled in the end: its pass or
\* sweep returns or raises, its sleep(1.0) returns. Nothing obliges
\* anybody to call stop().
SpecLoops ==
    /\ InitLoops
    /\ [][NextLoops]_vars
    /\ \A t \in LoopThreads : WF_vars(LoopStep(t))

(***************************************************************************)
(* Properties of the two loops                                             *)
(***************************************************************************)
\* A loop's thread has ended: it left its loop, or an exception ended it
Ended(t) == loops.th[t].pc \in {"exited", "crashed"}

\* C28: once the global stop signal is set, the supervisor's loop and the
\* janitor's loop both end in the end, and neither begins another
\* one-second slice of its sleep after the signal: a loop asleep leaves
\* its sleep when the slice it is in is over.
C28_LoopsEndAfterStop ==
    /\ [](loops.stop => <>(\A t \in LoopThreads : Ended(t)))
    /\ [](~loops.late)

\* C28, witness: both loops have left their loop, each having broken out
\* of its sleep with slices still to go.
C28_Witness ==
    \A t \in LoopThreads :
        /\ loops.th[t].pc = "exited"
        /\ loops.th[t].cut
        /\ loops.th[t].left > 0

====
